---- MODULE Spec2Model ----
(***************************************************************************)
(* Base-branch resolution of diffpilot-ts (src/src/git/git-service.ts) and *)
(* the tool layer that calls it (src/src/tools/pr-review.ts and the        *)
(* developer tools).  Names are sequences of one-character strings, so     *)
(* that validation, prefix stripping and keyword matching are computed on  *)
(* characters as the code does.                                            *)
(***************************************************************************)
EXTENDS Integers, Sequences, FiniteSets, TLC

\* ------------------------------------------------------------------ bounds
\* Commits besides the shared root: a branch is the set of commits it reaches.
MaxCommit == 2
\* Local branches besides the current one, and branches under the remote.
MaxLocal == 2
MaxRemote == 1
\* Git queries of one History run that do not complete normally.
HistFaults == 0
\* The repository of the runs of the whole resolution: commits besides the
\* root, local branches besides the current one, branches under the remote.
OrchCommit == 1
OrchLocal == 1
OrchRemote == 1
\* Git queries of one whole resolution that do not complete normally.
MaxFaults == 1
\* The repositories whose branch lists are permuted, and those whose queries
\* fail: commits besides the root, local branches besides the current one,
\* branches under the remote; queries failing in one run.
OrderCommit == 2
OrderLocal == 3
OrderRemote == 0
FailCommit == 1
FailLocal == 2
FailRemote == 1
MaxFailing == 2
\* Length of the names handed to the validators.
MaxNameLen == 3

\* ------------------------------------------------------------------ text
UpperChars == <<"A","B","C","D","E","F","G","H","I","J","K","L","M",
                "N","O","P","Q","R","S","T","U","V","W","X","Y","Z">>
LowerChars == <<"a","b","c","d","e","f","g","h","i","j","k","l","m",
                "n","o","p","q","r","s","t","u","v","w","x","y","z">>
DigitChars == <<"0","1","2","3","4","5","6","7","8","9">>

Range(s) == { s[k] : k \in DOMAIN s }

UpperSet == Range(UpperChars)
LowerSet == Range(LowerChars)
DigitSet == Range(DigitChars)

ToLowerChar(c) ==
  IF c \in UpperSet
    THEN LowerChars[CHOOSE k \in DOMAIN UpperChars : UpperChars[k] = c]
    ELSE c

ToUpperChar(c) ==
  IF c \in LowerSet
    THEN UpperChars[CHOOSE k \in DOMAIN LowerChars : LowerChars[k] = c]
    ELSE c

ToLowerCase(s) == [k \in DOMAIN s |-> ToLowerChar(s[k])]
ToUpperCase(s) == [k \in DOMAIN s |-> ToUpperChar(s[k])]

StartsWith(s, p) == Len(s) >= Len(p) /\ SubSeq(s, 1, Len(p)) = p

Includes(s, p) ==
  \E k \in 1..(Len(s) - Len(p) + 1) : SubSeq(s, k, k + Len(p) - 1) = p

Slice(s, n) == SubSeq(s, n + 1, Len(s))

\* s.split('/').pop(): the text after the last '/'.
LastSegment(s) ==
  IF "/" \in Range(s)
    THEN LET last == CHOOSE k \in DOMAIN s :
                       s[k] = "/" /\ \A j \in DOMAIN s : s[j] = "/" => j <= k
         IN SubSeq(s, last + 1, Len(s))
    ELSE s

WhitespaceChars == {" ", "\t", "\n"}
IsBlank(s) == \A k \in DOMAIN s : s[k] \in WhitespaceChars

\* ------------------------------------------------------------------ names
main     == <<"m","a","i","n">>
master   == <<"m","a","s","t","e","r">>
develop  == <<"d","e","v","e","l","o","p">>
dev      == <<"d","e","v">>
trunk    == <<"t","r","u","n","k">>
release  == <<"r","e","l","e","a","s","e">>
hotfix   == <<"h","o","t","f","i","x">>
\* A release branch: it matches the release pattern without being the keyword.
release1 == <<"r","e","l","e","a","s","e","-","1">>
\* A name git accepts for a branch and a shell reads as two commands.
evil     == <<"a",";","b">>
feat     == <<"f","e","a","t">>
origin   == <<"o","r","i","g","i","n">>
upstream == <<"u","p","s","t","r","e","a","m">>
HEADText == <<"H","E","A","D">>
RefsHeads == <<"r","e","f","s","/","h","e","a","d","s","/">>

\* The absent value (null): a one-element sequence that is no text.
Null == <<"NULL">>
\* Falsy in JavaScript: null or the empty string.
Falsy(v) == v = Null \/ v = <<>>

NoInfo == [remote |-> Null, baseBranch |-> Null]
BranchInfo(r, b) == [remote |-> r, baseBranch |-> b]

\* ------------------------------------------------------------ validation
BranchNameChars ==
  UpperSet \cup LowerSet \cup DigitSet \cup {"/", "_", "-"}

isValidBranchName(name) ==
  IF Falsy(name) \/ IsBlank(name)
    THEN FALSE
    ELSE \A k \in DOMAIN name : name[k] \in BranchNameChars

MAX_BRANCH_NAME_LENGTH == 256

\* "ok" when the name is returned, "null" for an absent or blank one, "throw"
\* when a SecurityError is thrown.
validateBranchName(value) ==
  IF Falsy(value) \/ IsBlank(value) THEN "null"
  ELSE IF Len(value) > MAX_BRANCH_NAME_LENGTH THEN "throw"
  ELSE IF \E k \in DOMAIN value : value[k] \notin (BranchNameChars \cup {"."}) THEN "throw"
  ELSE IF Includes(value, <<".", ".">>) THEN "throw"
  ELSE IF StartsWith(value, <<"-">>) THEN "throw"
  ELSE "ok"

\* -------------------------------------------------------------- executor
\* How the child process of one git command ends: it prints its answer and
\* exits 0, exits 0 printing nothing, exits with a non-zero code, is killed at
\* the timeout, or fails without an exit code (spawn error).
ExecOutcome == {"ok", "empty", "exit", "killed", "spawn"}

\* The executor as it would be if a spawn error rejected its promise.
runGitCommandRejecting(exec) ==
  CASE exec = "ok"     -> [thrown |-> FALSE, exitCode |-> 0,   output |-> "stdout"]
    [] exec = "empty"  -> [thrown |-> FALSE, exitCode |-> 0,   output |-> "blank"]
    [] exec = "killed" -> [thrown |-> FALSE, exitCode |-> -1,  output |-> "timed out"]
    [] exec = "exit"   -> [thrown |-> FALSE, exitCode |-> 128, output |-> "diagnostic"]
    [] exec = "spawn"  -> [thrown |-> TRUE,  exitCode |-> 1,   output |-> "diagnostic"]

runGitCommand(exec) ==
  CASE exec = "ok"     -> [thrown |-> FALSE, exitCode |-> 0,   output |-> "stdout"]
    [] exec = "empty"  -> [thrown |-> FALSE, exitCode |-> 0,   output |-> "blank"]
    [] exec = "killed" -> [thrown |-> FALSE, exitCode |-> -1,  output |-> "timed out"]
    [] exec = "exit"   -> [thrown |-> FALSE, exitCode |-> 128, output |-> "diagnostic"]
    [] exec = "spawn"  -> [thrown |-> FALSE, exitCode |-> 1,   output |-> "diagnostic"]

\* The engine only tests an exit code against 0, so the classes above keep one
\* class for every failure; the executor itself is modelled below on what
\* child_process.exec reports.
DEFAULT_TIMEOUT_MS == 60000

\* The promisified exec on a child process that wrote stdout and stderr and
\* ended as child.kind says: "exit" with child.code, "timeout" (killed by
\* exec's timer), "signal" (killed from outside), "spawn" (the shell could
\* not be started, e.g. the working directory is gone) or "overflow" (more
\* output than maxBuffer). It resolves with the two texts or rejects with an
\* error carrying them and a `code` that is a number ([number |-> n]), the
\* name of a system error ([name |-> s]) or null ([none |-> TRUE]).
execAsync(child) ==
  LET failed(killed, code, out, err) ==
        [rejected |-> TRUE, killed |-> killed, code |-> code, stdout |-> out,
         stderr |-> err, message |-> child.message]
  IN CASE child.kind = "exit" /\ child.code = 0 ->
            [rejected |-> FALSE, killed |-> FALSE, code |-> [none |-> TRUE],
             stdout |-> child.stdout, stderr |-> child.stderr, message |-> <<>>]
       [] child.kind = "exit" /\ child.code # 0 ->
            failed(FALSE, [number |-> child.code], child.stdout, child.stderr)
       [] child.kind = "timeout"  -> failed(TRUE, [none |-> TRUE], child.stdout, child.stderr)
       [] child.kind = "signal"   -> failed(FALSE, [none |-> TRUE], child.stdout, child.stderr)
       [] child.kind = "spawn"    -> failed(FALSE, [name |-> "ENOENT"], <<>>, <<>>)
       [] child.kind = "overflow" ->
            failed(FALSE, [name |-> "ERR_CHILD_PROCESS_STDIO_MAXBUFFER"],
                   child.stdout, child.stderr)

TimedOutText(timeoutMs, args) ==
  <<"Git command timed out after ", ToString(timeoutMs), "ms: git ", args>>

\* runGitCommand(args, workingDirectory, timeoutMs) with its result in full.
GitCommandResult(child, args, timeoutMs) ==
  LET r == execAsync(child)
  IN IF ~r.rejected
       THEN [exitCode |-> [number |-> 0], output |-> r.stdout \o r.stderr]
     ELSE IF r.killed
       THEN [exitCode |-> [number |-> -1], output |-> TimedOutText(timeoutMs, args)]
     ELSE [exitCode |-> IF r.code = [none |-> TRUE] THEN [number |-> 1] ELSE r.code,
           output |-> IF r.stdout \o r.stderr # <<>> THEN r.stdout \o r.stderr
                      ELSE IF r.message # <<>> THEN r.message
                      ELSE <<"Unknown error">>]

\* ------------------------------------------------------------ repository
VARIABLES
  shell,          \* the shell child_process.exec hands the command line to
  repoLocal,      \* `git branch --list`: the local branch names, in git's order
  repoRemote,     \* `git branch -r --list "<remote>/*"`: the lines git prints
  reach           \* ref -> the commits it reaches besides the shared root

RemoteRef(r, b) == r \o <<"/">> \o b

\* Commits are identified by what they reach; NoHash is null or ''.
NoHash == {-1}
HeadOf(ref) == reach[ref]
MergeBaseOf(a, b) == reach[a] \cap reach[b]
AheadCount(branch, base) == Cardinality(reach[branch] \ reach[base])
Ahead(branch, base) == AheadCount(branch, base) > 0

\* git fails on a ref that does not exist, whatever else happens.
Outcome(exec, refs) ==
  IF exec \in {"ok", "empty"} /\ ~(refs \subseteq DOMAIN reach) THEN "exit" ELSE exec

\* ----------------------------------------------------------- query layer
\* A command line with --format=%(refname:short) as the shell takes it:
\* cmd.exe passes it to git, a POSIX shell stops at the unquoted parenthesis
\* with a syntax error and git does not run.
ViaShell(exec) == IF shell = "sh" THEN "exit" ELSE exec

\* The helper as it would be if only a positive exit code counted as failure:
\* the text of a timed-out command is then taken for a commit.
getMergeBaseUnlessPositive(exec, branch1, branch2) ==
  LET result == runGitCommand(Outcome(exec, {branch1, branch2}))
  IN IF result.exitCode > 0 \/ result.output = "blank" THEN NoHash
     ELSE IF result.output = "stdout" THEN MergeBaseOf(branch1, branch2)
     ELSE {-2}

getMergeBase(exec, branch1, branch2) ==
  LET result == runGitCommand(Outcome(exec, {branch1, branch2}))
  IN IF result.exitCode = 0 /\ result.output = "stdout"
       THEN MergeBaseOf(branch1, branch2)
       ELSE NoHash

\* The helper as it would be if a count of zero commits counted as ahead.
isBranchAheadOrLevel(exec, branch, baseBranch) ==
  LET result == runGitCommand(Outcome(exec, {branch, baseBranch}))
  IN IF result.exitCode # 0 THEN FALSE
     ELSE result.output = "stdout" /\ AheadCount(branch, baseBranch) >= 0

isBranchAhead(exec, branch, baseBranch) ==
  LET result == runGitCommand(Outcome(exec, {branch, baseBranch}))
  IN IF result.exitCode # 0 THEN FALSE
     ELSE result.output = "stdout" /\ AheadCount(branch, baseBranch) > 0

\* printed: what `rev-parse --abbrev-ref HEAD` prints, "HEAD" when detached.
getCurrentBranch(exec, printed) ==
  LET result == runGitCommand(exec)
  IN IF result.exitCode # 0 \/ result.output # "stdout" \/ IsBlank(printed) THEN Null
     ELSE IF printed = HEADText THEN Null
     ELSE printed

getLocalBranches(exec, excludeBranch) ==
  LET result == runGitCommand(ViaShell(exec))
      Keep(b) == b # <<>> /\ b # excludeBranch
  IN IF result.exitCode # 0 \/ result.output # "stdout" THEN <<>>
     ELSE SelectSeq(repoLocal, Keep)

getRemoteBranches(exec, remoteName) ==
  LET result == runGitCommand(ViaShell(exec))
      prefix == remoteName \o <<"/">>
      NotPointer(b) == b # <<>> /\ ~Includes(b, <<"-", ">">>)
      kept == SelectSeq(repoRemote, NotPointer)
      stripped == [k \in DOMAIN kept |->
                    IF StartsWith(kept[k], prefix) THEN Slice(kept[k], Len(prefix))
                    ELSE kept[k]]
      NonEmpty(b) == b # <<>>
  IN IF result.exitCode # 0 \/ result.output # "stdout" THEN <<>>
     ELSE SelectSeq(stripped, NonEmpty)

\* The value of `config --get branch.<b>.remote` when the command exits 0.
getBranchRemote(exec, value) ==
  LET result == runGitCommand(exec)
  IN IF result.exitCode = 0
       THEN (IF result.output = "stdout" THEN value ELSE <<>>)
       ELSE Null

\* What git answers to the queries of one findRemoteForBranch call: the
\* branch's configured remote, and the list of remotes.
RemoteLookups ==
  { [cfgExec |-> "ok",   cfg |-> upstream, remExec |-> "ok", remotes |-> <<origin>>],
    [cfgExec |-> "exit", cfg |-> <<>>,     remExec |-> "ok", remotes |-> <<upstream, origin>>] }

\* The lookup drawn where none is made.
DefaultLookup == [cfgExec |-> "ok", cfg |-> upstream, remExec |-> "ok", remotes |-> <<origin>>]

\* `show-ref --verify --quiet refs/remotes/<r>/<b>` exits 0 iff the ref exists.
HasRemoteRef(r, b) == RemoteRef(r, b) \in DOMAIN reach

findRemoteForBranch(lk, branch) ==
  LET configRemote == getBranchRemote(lk.cfgExec, lk.cfg)
      remotesResult == runGitCommand(lk.remExec)
      names == IF remotesResult.output = "stdout" THEN lk.remotes ELSE <<>>
      hits == { k \in DOMAIN names : HasRemoteRef(names[k], branch) }
  IN IF ~Falsy(configRemote) THEN configRemote
     ELSE IF remotesResult.exitCode # 0 THEN Null
     ELSE IF hits = {} THEN Null
     ELSE names[CHOOSE k \in hits : \A j \in hits : k <= j]

\* The names findRemoteForBranch puts into command strings.
LookupNames(lk, branch) ==
  LET configRemote == getBranchRemote(lk.cfgExec, lk.cfg)
      remotesResult == runGitCommand(lk.remExec)
      names == IF remotesResult.output = "stdout" THEN lk.remotes ELSE <<>>
      hits == { k \in DOMAIN names : HasRemoteRef(names[k], branch) }
      tried == { k \in DOMAIN names : \A j \in hits : k <= j }
  IN {branch} \cup
     (IF ~Falsy(configRemote) \/ remotesResult.exitCode # 0 THEN {}
      ELSE { names[k] : k \in tried })

OrElse(v, default) == IF v = Null THEN default ELSE v

\* ------------------------------------------------------- history strategy
isLikelyLongLivedBaseBranch(branch) ==
  LET name == ToLowerCase(branch)
  IN \/ name = main
     \/ name = master
     \/ name = develop
     \/ name = dev
     \/ name = trunk
     \/ name = release
     \/ StartsWith(name, release \o <<"/">>)
     \/ StartsWith(name, release \o <<"-">>)
     \/ StartsWith(name, hotfix \o <<"/">>)
     \/ StartsWith(name, hotfix \o <<"-">>)

\* The tie-break as it would be without the preference for long-lived names.
chooseChildOnly(existingBranch, incomingBranch, isIncomingChildOfExisting) ==
  IF isIncomingChildOfExisting THEN "incoming" ELSE "existing"

chooseCandidateFromHierarchy(existingBranch, incomingBranch, isIncomingChildOfExisting) ==
  LET existingStable == isLikelyLongLivedBaseBranch(existingBranch)
      incomingStable == isLikelyLongLivedBaseBranch(incomingBranch)
  IN IF existingStable /\ ~incomingStable THEN "existing"
     ELSE IF incomingStable /\ ~existingStable THEN "incoming"
     ELSE IF isIncomingChildOfExisting THEN "incoming" ELSE "existing"

\* The outcomes of the four graph queries of one loop iteration: merge-base,
\* ahead of the candidate, candidate ahead of the kept one, kept one ahead of
\* the candidate.
NonOk(o) == Cardinality({ q \in DOMAIN o : o[q] # "ok" })
StepQueries == {"mb", "ahead", "newer", "prev"}
StepOutcomes ==
  { o \in [StepQueries -> ExecOutcome] : NonOk(o) <= MaxFaults \/ NonOk(o) <= HistFaults }

\* The acceptance test reduced to the existence of a merge base.
AcceptsAnyRelated(mergeBase, head, isAhead) ==
  mergeBase # NoHash

\* The three acceptance conditions of a candidate.
Accepts(mergeBase, head, isAhead) ==
  mergeBase # NoHash /\ mergeBase # head /\ isAhead

\* The comparison as it would be if only the first ahead-test were consulted.
HierarchyFromFirstTest(isNewChild, isPreviousChild) ==
  IF isNewChild THEN "incoming is child" ELSE "existing is child"

\* The comparison as it would be if the second test asked only that the new
\* candidate is not ahead of the kept one.
HierarchyLax(isNewChild, isPreviousChild) ==
  IF isNewChild /\ ~isPreviousChild THEN "incoming is child"
  ELSE IF ~isNewChild THEN "existing is child"
  ELSE "ambiguous"

\* What the two ahead-tests between the kept candidate and the new one say.
Hierarchy(isNewChild, isPreviousChild) ==
  IF isNewChild /\ ~isPreviousChild THEN "incoming is child"
  ELSE IF isPreviousChild /\ ~isNewChild THEN "existing is child"
  ELSE "ambiguous"

\* One iteration of either candidate loop.  st holds the loop's variables,
\* branch is the candidate's name, ref the ref git is asked about, newRemote
\* the remote recorded if the candidate is kept.
ExamineCandidate(st, cur, head, branch, ref, o, newRemote) ==
  LET mergeBase == getMergeBase(o["mb"], cur, ref)
      isAhead == isBranchAhead(o["ahead"], cur, ref)
      taken == [st EXCEPT !.uniqueBase = branch, !.uniqueRemote = newRemote,
                          !.uniqueRef = ref]
      isNewCandidateChildOfPrevious == isBranchAhead(o["newer"], ref, st.uniqueRef)
      isPreviousChildOfNewCandidate == isBranchAhead(o["prev"], st.uniqueRef, ref)
      relation == Hierarchy(isNewCandidateChildOfPrevious, isPreviousChildOfNewCandidate)
      Decide(isIncomingChild) ==
        IF chooseCandidateFromHierarchy(st.uniqueBase, branch, isIncomingChild) = "incoming"
          THEN [taken EXCEPT !.candidateCount = 1]
          ELSE [st EXCEPT !.candidateCount = 1]
  IN IF ~Accepts(mergeBase, head, isAhead) THEN st
     ELSE IF st.candidateCount + 1 = 1 THEN [taken EXCEPT !.candidateCount = 1]
     ELSE IF relation = "incoming is child" THEN Decide(TRUE)
     ELSE IF relation = "existing is child" THEN Decide(FALSE)
     ELSE [st EXCEPT !.candidateCount = st.candidateCount + 1, !.hasAmbiguity = TRUE]

\* The return statement as it would be without the test of the flag.
HistoryResultIgnoringFlag(st, defaultRemote) ==
  IF st.candidateCount = 1 /\ ~Falsy(st.uniqueBase)
    THEN BranchInfo(OrElse(st.uniqueRemote, defaultRemote), st.uniqueBase)
    ELSE NoInfo

\* The return statement of the strategy.
HistoryResult(st, defaultRemote) ==
  IF st.candidateCount = 1 /\ ~Falsy(st.uniqueBase) /\ ~st.hasAmbiguity
    THEN BranchInfo(OrElse(st.uniqueRemote, defaultRemote), st.uniqueBase)
    ELSE NoInfo

\* -------------------------------------------------------- reflog strategy
HexChars == DigitSet \cup {"a","b","c","d","e","f","A","B","C","D","E","F"}

isCommitHash(value) ==
  IF Falsy(value) \/ Len(value) < 7 \/ Len(value) > 40
    THEN FALSE
    ELSE \A k \in DOMAIN value : value[k] \in HexChars

\* The lines as they would be scanned without the reversal, newest first.
NotReversed(s) == s

Reverse(s) == [k \in DOMAIN s |-> s[Len(s) + 1 - k]]

\* A reflog subject as the two patterns of the strategy read it: a
\* "branch: Created from <src>" record, a "checkout: moving from <src> to <to>"
\* record, or any other line.
CreatedFrom(src) == [kind |-> "created", src |-> src, to |-> <<>>]
MovingFrom(src, to) == [kind |-> "checkout", src |-> src, to |-> to]
OtherLine == [kind |-> "other", src |-> <<>>, to |-> <<>>]

\* The reflog subjects git writes, as text.
CreatedText(src) == <<"b","r","a","n","c","h",":"," ","C","r","e","a","t","e","d"," ","f","r","o","m"," ">> \o src
MovingText(src, to) == <<"c","h","e","c","k","o","u","t",":"," ","m","o","v","i","n","g"," ","f","r","o","m"," ">> \o src \o <<" ","t","o"," ">> \o to
OtherText == <<"c","o","m","m","i","t",":"," ","x">>

\* \s and the two scanning steps of the patterns: the end of a run of
\* whitespace and the end of a run of \S, from position k.
IsSpace(c) == c \in WhitespaceChars
SkipSpaces(s, k) ==
  IF \E j \in k..Len(s) : ~IsSpace(s[j])
    THEN CHOOSE j \in k..Len(s) : ~IsSpace(s[j]) /\ \A i \in k..(j - 1) : IsSpace(s[i])
    ELSE Len(s) + 1
TokenEnd(s, k) ==
  IF \E j \in k..Len(s) : IsSpace(s[j])
    THEN CHOOSE j \in k..Len(s) : IsSpace(s[j]) /\ \A i \in k..(j - 1) : ~IsSpace(s[i])
    ELSE Len(s) + 1

\* The literal `word`, whatever its case (flag i), at position k of s.
LiteralAt(s, k, word) ==
  /\ k + Len(word) - 1 <= Len(s)
  /\ ToLowerCase(SubSeq(s, k, k + Len(word) - 1)) = word

\* <label>\s*<words>\s+(\S+) at position k: the position after the match and
\* the group, or 0 when there is no match at k.
HeadAt(s, k, label, words) ==
  LET w == SkipSpaces(s, k + Len(label))
      g == SkipSpaces(s, w + Len(words))
      e == TokenEnd(s, g)
  IN IF /\ LiteralAt(s, k, label)
        /\ LiteralAt(s, w, words)
        /\ g > w + Len(words)
        /\ e > g
       THEN [end |-> e, group |-> SubSeq(s, g, e - 1)]
       ELSE [end |-> 0, group |-> <<>>]

\* line.match(/branch:\s*Created from\s+(\S+)/i): the group of the leftmost
\* match, Null without a match.
createdMatch(line) ==
  LET At(k) == HeadAt(line, k, <<"b","r","a","n","c","h",":">>, <<"c","r","e","a","t","e","d"," ","f","r","o","m">>)
      hits == { k \in DOMAIN line : At(k).end > 0 }
  IN IF hits = {} THEN Null
     ELSE At(CHOOSE k \in hits : \A j \in hits : k <= j).group

\* line.match(/checkout:\s*moving from\s+(\S+)\s+to\s+(\S+)/i): the two groups
\* of the leftmost match, Null without a match.
checkoutMatch(line) ==
  LET At(k) ==
        LET h == HeadAt(line, k, <<"c","h","e","c","k","o","u","t",":">>, <<"m","o","v","i","n","g"," ","f","r","o","m">>)
            t == SkipSpaces(line, h.end)
            g == SkipSpaces(line, t + 2)
            e == TokenEnd(line, g)
        IN IF h.end > 0 /\ t > h.end /\ LiteralAt(line, t, <<"t","o">>) /\ g > t + 2 /\ e > g
             THEN [ok |-> TRUE, from |-> h.group, to |-> SubSeq(line, g, e - 1)]
             ELSE [ok |-> FALSE, from |-> <<>>, to |-> <<>>]
      hits == { k \in DOMAIN line : At(k).ok }
  IN IF hits = {} THEN Null
     ELSE LET m == At(CHOOSE k \in hits : \A j \in hits : k <= j)
          IN <<m.from, m.to>>

\* A line of the reflog as the loop reads it: the first pattern is tried, the
\* second only when the first does not match.
ParseLine(line) ==
  IF createdMatch(line) # Null THEN CreatedFrom(createdMatch(line))
  ELSE IF checkoutMatch(line) # Null
    THEN MovingFrom(checkoutMatch(line)[1], checkoutMatch(line)[2])
  ELSE OtherLine

\* The scan of the lines, oldest first.
RECURSIVE ScanReflog(_, _)
ScanReflog(lines, cur) ==
  IF lines = <<>> THEN Null
  ELSE LET line == Head(lines)
       IN IF line.kind = "created"
            THEN IF ToUpperCase(line.src) = HEADText \/ isCommitHash(line.src)
                   THEN ScanReflog(Tail(lines), cur)
                   ELSE LastSegment(line.src)
          ELSE IF line.kind = "checkout" /\ line.to = cur /\ ~isCommitHash(line.src)
            THEN LastSegment(line.src)
          ELSE ScanReflog(Tail(lines), cur)

\* lines: what `reflog show <cur> --format=%gs` prints, newest first.
findFromReflog(exec, lines, cur) ==
  LET result == runGitCommand(exec)
  IN IF result.exitCode # 0 \/ result.output # "stdout" \/ lines = <<>>
       THEN Null
       ELSE ScanReflog(Reverse(lines), cur)

\* ------------------------------------------------- tracking configuration
\* The strategy as it would be if the ref were returned as configured.
findFromTrackingConfigUnstripped(exec, value) ==
  LET result == runGitCommand(exec)
  IN IF result.exitCode # 0 \/ result.output # "stdout" \/ value = <<>>
       THEN Null
       ELSE value

\* value: what `config --get branch.<b>.merge` prints.
findFromTrackingConfig(exec, value) ==
  LET result == runGitCommand(exec)
  IN IF result.exitCode # 0 \/ result.output # "stdout" \/ value = <<>>
       THEN Null
       ELSE IF StartsWith(value, RefsHeads) THEN Slice(value, Len(RefsHeads))
       ELSE value

\* The tracking step of findBaseBranch: the strategy's name unless it is the
\* current branch, with the remote configured for the current branch.  rc is
\* the outcome and the output of `config --get branch.<b>.remote`.
TrackingInfo(exec, value, rc, cur, defaultRemote) ==
  LET trackingBase == findFromTrackingConfig(exec, value)
      branchRemote == OrElse(getBranchRemote(rc[1], rc[2]), defaultRemote)
  IN IF ~Falsy(trackingBase) /\ trackingBase # cur
       THEN BranchInfo(branchRemote, trackingBase)
       ELSE NoInfo

\* ------------------------------------------------------- keyword fallback
\* [...new Set(list)]: the first occurrence of each element, in order.
RECURSIVE Dedupe(_)
Dedupe(s) ==
  IF s = <<>> THEN <<>>
  ELSE LET rest == Dedupe(SubSeq(s, 1, Len(s) - 1))
           last == s[Len(s)]
       IN IF last \in Range(rest) THEN rest ELSE Append(rest, last)

\* The rules as they would be with the exact names before the release prefix.
KeywordRulesMainFirst == <<main, master, develop, dev, release>>

KeywordRules == <<release, main, master, develop, dev>>

\* The rule's pattern as it would be if release had to match exactly too.
RuleMatchesExactOnly(keyword, branch) ==
  ToLowerCase(branch) = keyword

\* The rule's pattern: /^release(?:$|[/-])/i for release, /^<keyword>$/i else.
RuleMatches(keyword, branch) ==
  LET name == ToLowerCase(branch)
  IN IF keyword = release
       THEN /\ StartsWith(name, release)
            /\ (Len(name) = Len(release) \/ name[Len(release) + 1] \in {"/", "-"})
       ELSE name = keyword

First(s) == s[1]

selectKeywordBranch(matches, keyword) ==
  LET Exact(b) == ToLowerCase(b) = keyword
      exact == SelectSeq(matches, Exact)
  IN IF Len(matches) = 0 THEN Null
     ELSE IF exact # <<>> THEN First(exact)
     ELSE IF Len(matches) = 1 THEN First(matches) ELSE Null

\* The branch selected by the first rule, from rule k on, that selects one.
RECURSIVE SelectByRules(_, _)
SelectByRules(allBranches, k) ==
  IF k > Len(KeywordRules) THEN Null
  ELSE LET Matches(b) == RuleMatches(KeywordRules[k], b)
           selected == selectKeywordBranch(SelectSeq(allBranches, Matches), KeywordRules[k])
       IN IF Falsy(selected) THEN SelectByRules(allBranches, k + 1) ELSE selected

KeywordCandidates(locals, remotes, cur) ==
  LET NotCurrent(b) == b # cur
  IN SelectSeq(Dedupe(locals \o remotes), NotCurrent)

findFromBranchNameKeywords(locals, remotes, cur, defaultRemote, lk) ==
  LET selected == SelectByRules(KeywordCandidates(locals, remotes, cur), 1)
  IN IF Falsy(selected) THEN NoInfo
     ELSE IF selected \in Range(remotes) THEN BranchInfo(defaultRemote, selected)
     ELSE BranchInfo(OrElse(findRemoteForBranch(lk, selected), defaultRemote), selected)

\* ----------------------------------------------------------- orchestrator
VARIABLES
  currentBranch,  \* argument of findBaseBranch
  remote,         \* argument of findBaseBranch
  pc,             \* where the call stands
  idx,            \* position of the running candidate loop
  localBranches, remoteBranches, currentHead,
  uniqueBase, uniqueRemote, uniqueRef, candidateCount, hasAmbiguity,
  obs,            \* what the last loop iteration saw
  started,        \* the strategies started, in order
  found,          \* strategy -> what it returned
  result, via,    \* what findBaseBranch returned, and the strategy it came from
  embedded,       \* the names put into git command strings so far
  faults,         \* graph queries so far that did not complete normally
  budget          \* how many of them the run admits

\* The tool that called findBaseBranch, and the validator under test.
VARIABLES
  tool,           \* "getPrDiff", "diffStats", or "none" for a direct call
  argBase,        \* args.baseBranch, Null when the caller gave none
  argFeature,     \* args.featureBranch, Null when the caller gave none
  featureBranch,  \* the tool's featureBranch once it is determined
  toolOut,        \* what the tool returned
  toolCmds,       \* the fetch, diff and rev-list commands the tool issued
  usedBase,       \* the base branch named in the tool's diff command
  vName, vChecked, vAccepted, vOutcome   \* a name and what the validators said

toolVars == <<tool, argBase, argFeature, featureBranch, toolOut, toolCmds, usedBase>>
validVars == <<vName, vChecked, vAccepted, vOutcome>>

\* The caller's view of successive calls, and the answers of a repository
\* that nothing modifies between them.
VARIABLES
  script,         \* what git answers to each text query while the repository is untouched
  calls,          \* which call of findBaseBranch is running: the first or the second
  first,          \* what the first call returned
  unitIn,         \* the input of a function applied on its own
  unitOut         \* what it returned

sessionVars == <<script, calls, first>>
unitVars == <<validVars, sessionVars, unitIn, unitOut>>

\* The answers are not fixed: every query draws its own.
Free == [fixed |-> FALSE, reflogExec |-> "ok", reflogLines |-> <<>>, trackExec |-> "ok",
         trackValue |-> <<>>, rc |-> <<"exit", <<>> >>,
         lk |-> [cfgExec |-> "ok", cfg |-> <<>>, remExec |-> "ok", remotes |-> <<>>]]

\* The answers drawn agree with the repository's fixed ones, where it has them.
Follows(answers) ==
  script.fixed => \A f \in DOMAIN answers : script[f] = answers[f]

Strategies == {"History", "Reflog", "Tracking", "Keyword"}

\* The chain as it would be if the reflog were consulted last.
AfterNoResultReflogLast(strategy) ==
  CASE strategy = "History"  -> "Tracking"
    [] strategy = "Tracking" -> "Keyword"
    [] strategy = "Keyword"  -> "Reflog"
    [] strategy = "Reflog"   -> "Done"

\* The chain as it would be if the call started over when the last strategy
\* found nothing.
AfterNoResultRetrying(strategy) ==
  CASE strategy = "History"  -> "Reflog"
    [] strategy = "Reflog"   -> "Tracking"
    [] strategy = "Tracking" -> "Keyword"
    [] strategy = "Keyword"  -> "Start"

\* Where findBaseBranch goes when a strategy returned no result.
AfterNoResult(strategy) ==
  CASE strategy = "History"  -> "Reflog"
    [] strategy = "Reflog"   -> "Tracking"
    [] strategy = "Tracking" -> "Keyword"
    [] strategy = "Keyword"  -> "Done"

NoObs == [branch |-> <<>>, ref |-> <<>>, accepted |-> FALSE, compared |-> FALSE,
          newer |-> FALSE, prev |-> FALSE]

Loop == [uniqueBase |-> uniqueBase, uniqueRemote |-> uniqueRemote, uniqueRef |-> uniqueRef,
         candidateCount |-> candidateCount, hasAmbiguity |-> hasAmbiguity]

\* The loop statement reached after position k of the loop `phase`.
LoopPos(phase, k, locals, remotes) ==
  IF phase = "HistLocal" /\ k <= Len(locals) THEN <<"HistLocal", k>>
  ELSE IF phase = "HistLocal" /\ Len(remotes) >= 1 THEN <<"HistRemote", 1>>
  ELSE IF phase = "HistRemote" /\ k <= Len(remotes) THEN <<"HistRemote", k>>
  ELSE <<"HistReturn", 0>>

Thrown(execs) == \E e \in execs : runGitCommand(e).thrown

\* The strategy's result is handed to the caller, or the next strategy runs.
Conclude(strategy, info) ==
  /\ found' = [found EXCEPT ![strategy] = info]
  /\ IF info # NoInfo
       THEN pc' = "Done" /\ result' = info /\ via' = strategy
       ELSE /\ pc' = AfterNoResult(strategy)
            /\ UNCHANGED <<result, via>>

repoVars == <<shell, repoLocal, repoRemote, reach>>
argVars == <<currentBranch, remote, budget>>
loopVars == <<idx, localBranches, remoteBranches, currentHead, uniqueBase, uniqueRemote,
              uniqueRef, candidateCount, hasAmbiguity, obs>>

\* findBaseBranch up to the first candidate loop of findFromGitHistory.
TryHistory ==
  /\ pc = "Start"
  /\ IF Falsy(currentBranch)
       THEN /\ pc' = "Done"
            /\ UNCHANGED <<loopVars, started, found, result, via, embedded, faults>>
       ELSE \E oL, oR, oH \in ExecOutcome :
              LET n == NonOk(<<oL, oR, oH>>)
                  locals == getLocalBranches(oL, currentBranch)
                  remotes == getRemoteBranches(oR, remote)
                  currentHeadResult == runGitCommand(Outcome(oH, {currentBranch}))
                  pos == LoopPos("HistLocal", 1, locals, remotes)
              IN /\ faults + n <= budget
                 /\ shell = "sh" => (oL = "ok" /\ oR = "ok")
                 /\ faults' = faults + n
                 /\ started' = Append(started, "History")
                 /\ embedded' = embedded \cup {remote, currentBranch}
                 /\ localBranches' = locals
                 /\ remoteBranches' = remotes
                 /\ UNCHANGED <<uniqueBase, uniqueRemote, uniqueRef, candidateCount,
                                hasAmbiguity, obs>>
                 /\ IF Thrown({oL, oR, oH})
                      THEN /\ pc' = "Raised"
                           /\ UNCHANGED <<idx, currentHead, found, result, via>>
                    ELSE IF currentHeadResult.exitCode # 0
                      THEN /\ Conclude("History", NoInfo)
                           /\ UNCHANGED <<idx, currentHead>>
                    ELSE /\ currentHead' = IF currentHeadResult.output = "stdout"
                                             THEN HeadOf(currentBranch) ELSE NoHash
                         /\ pc' = pos[1]
                         /\ idx' = pos[2]
                         /\ UNCHANGED <<found, result, via>>
  /\ UNCHANGED <<repoVars, argVars, toolVars, unitVars>>

\* The queries an iteration issues, given their outcomes.
Issued(o, st, cur, head, ref) ==
  LET mergeBase == getMergeBase(o["mb"], cur, ref)
      isAhead == isBranchAhead(o["ahead"], cur, ref)
  IN {"mb"}
     \cup (IF mergeBase # NoHash /\ mergeBase # head THEN {"ahead"} ELSE {})
     \cup (IF Accepts(mergeBase, head, isAhead) /\ st.candidateCount >= 1
             THEN {"newer", "prev"} ELSE {})

\* One iteration of a candidate loop on the ref `ref` named `branch`.
Iterate(phase, branch, ref) ==
  \E o \in StepOutcomes :
    /\ faults + NonOk(o) <= budget
    /\ LET st == Loop
           issued == Issued(o, st, currentBranch, currentHead, ref)
           accepted == "ahead" \in issued
                       /\ isBranchAhead(o["ahead"], currentBranch, ref)
           compared == "newer" \in issued
           kept == ExamineCandidate(st, currentBranch, currentHead, branch, ref, o, remote)
           looksUp == phase = "HistLocal" /\ accepted /\ kept.uniqueRef = ref
           pos == LoopPos(phase, idx + 1, localBranches, remoteBranches)
       IN /\ \A q \in StepQueries \ issued : o[q] = "ok"
          /\ \E lk \in (IF looksUp THEN RemoteLookups ELSE {DefaultLookup}) :
               LET newRemote == IF phase = "HistLocal"
                                  THEN OrElse(findRemoteForBranch(lk, branch), remote)
                                  ELSE remote
                   n == ExamineCandidate(st, currentBranch, currentHead, branch, ref, o,
                                         newRemote)
               IN /\ looksUp => Follows([lk |-> lk])
                  /\ uniqueBase' = n.uniqueBase
                  /\ uniqueRemote' = n.uniqueRemote
                  /\ uniqueRef' = n.uniqueRef
                  /\ candidateCount' = n.candidateCount
                  /\ hasAmbiguity' = n.hasAmbiguity
                  /\ embedded' = embedded \cup {currentBranch, branch}
                       \cup (IF phase = "HistRemote" THEN {remote} ELSE {})
                       \cup (IF compared THEN {st.uniqueBase} ELSE {})
                       \cup (IF looksUp THEN LookupNames(lk, branch) ELSE {})
          /\ faults' = faults + NonOk(o)
          /\ obs' = [branch |-> branch, ref |-> ref, accepted |-> accepted,
                     compared |-> compared,
                     newer |-> compared /\ isBranchAhead(o["newer"], ref, st.uniqueRef),
                     prev |-> compared /\ isBranchAhead(o["prev"], st.uniqueRef, ref)]
          /\ pc' = IF Thrown(Range(o)) THEN "Raised" ELSE pos[1]
          /\ idx' = pos[2]

HistoryLocal ==
  /\ pc = "HistLocal"
  /\ Iterate("HistLocal", localBranches[idx], localBranches[idx])
  /\ UNCHANGED <<repoVars, argVars, toolVars, unitVars, localBranches, remoteBranches,
                 currentHead, started, found, result, via>>

HistoryRemote ==
  /\ pc = "HistRemote"
  /\ LET branch == remoteBranches[idx]
         pos == LoopPos("HistRemote", idx + 1, localBranches, remoteBranches)
     IN IF branch \in Range(localBranches)
          THEN /\ pc' = pos[1]
               /\ idx' = pos[2]
               /\ obs' = [NoObs EXCEPT !.branch = branch]
               /\ UNCHANGED <<uniqueBase, uniqueRemote, uniqueRef, candidateCount,
                              hasAmbiguity, embedded, faults>>
          ELSE Iterate("HistRemote", branch, RemoteRef(remote, branch))
  /\ UNCHANGED <<repoVars, argVars, toolVars, unitVars, localBranches, remoteBranches,
                 currentHead, started, found, result, via>>

\* The values of the strategy's local variables before it runs.
LoopIdle ==
  /\ idx = 0
  /\ localBranches = <<>>
  /\ remoteBranches = <<>>
  /\ currentHead = NoHash
  /\ uniqueBase = Null
  /\ uniqueRemote = Null
  /\ uniqueRef = Null
  /\ candidateCount = 0
  /\ hasAmbiguity = FALSE
  /\ obs = NoObs

\* The return as it would be if the candidate counter outlived the call.
HistoryReturnKeepingCount ==
  /\ pc = "HistReturn"
  /\ Conclude("History", HistoryResult(Loop, remote))
  /\ idx' = 0
  /\ localBranches' = <<>>
  /\ remoteBranches' = <<>>
  /\ currentHead' = NoHash
  /\ uniqueBase' = Null
  /\ uniqueRemote' = Null
  /\ uniqueRef' = Null
  /\ candidateCount' = candidateCount
  /\ hasAmbiguity' = FALSE
  /\ obs' = NoObs
  /\ UNCHANGED <<repoVars, argVars, toolVars, unitVars, started, embedded, faults>>

\* The return of findFromGitHistory and the test of its result.
HistoryReturn ==
  /\ pc = "HistReturn"
  /\ Conclude("History", HistoryResult(Loop, remote))
  /\ idx' = 0
  /\ localBranches' = <<>>
  /\ remoteBranches' = <<>>
  /\ currentHead' = NoHash
  /\ uniqueBase' = Null
  /\ uniqueRemote' = Null
  /\ uniqueRef' = Null
  /\ candidateCount' = 0
  /\ hasAmbiguity' = FALSE
  /\ obs' = NoObs
  /\ UNCHANGED <<repoVars, argVars, toolVars, unitVars, started, embedded, faults>>

\* What git may print for the text queries of the later strategies.
MaxReflog == 1
hash7 == <<"a","b","c","1","2","3","4">>
\* A branch that was deleted after the current one was created from it.
gone == <<"g","o","n","e">>

ReflogLines ==
  { CreatedFrom(src) : src \in {RemoteRef(origin, main), HEADText, hash7, gone} }
  \cup { MovingFrom(main, feat), OtherLine }

ReflogOutputs == UNION { [1..n -> ReflogLines] : n \in 0..MaxReflog }

TextExec == {"ok", "exit", "killed"}

TrackingValues == {RefsHeads \o main, gone, RefsHeads \o feat}

\* Outcome and value of `config --get branch.<b>.remote`.
RemoteConfigs == { <<"ok", upstream>>, <<"ok", <<>> >>, <<"exit", <<>> >> }

TryReflog ==
  /\ pc = "Reflog"
  /\ \E exec \in TextExec, lines \in ReflogOutputs, lk \in RemoteLookups :
       LET reflogBase == findFromReflog(exec, lines, currentBranch)
           branchRemote == OrElse(findRemoteForBranch(lk, reflogBase), remote)
       IN /\ exec = "ok" \/ lines = <<>>
          /\ ~Falsy(reflogBase) \/ lk = DefaultLookup
          /\ Follows([reflogExec |-> exec, reflogLines |-> lines])
          /\ ~Falsy(reflogBase) => Follows([lk |-> lk])
          /\ started' = Append(started, "Reflog")
          /\ embedded' = embedded \cup {currentBranch}
                         \cup (IF Falsy(reflogBase) THEN {} ELSE LookupNames(lk, reflogBase))
          /\ IF Thrown({exec, lk.cfgExec, lk.remExec})
               THEN pc' = "Raised" /\ UNCHANGED <<found, result, via>>
               ELSE Conclude("Reflog", IF Falsy(reflogBase) THEN NoInfo
                                       ELSE BranchInfo(branchRemote, reflogBase))
  /\ UNCHANGED <<repoVars, argVars, toolVars, unitVars, loopVars, faults>>

TryTrackingConfig ==
  /\ pc = "Tracking"
  /\ \E exec \in TextExec, value \in TrackingValues, rc \in RemoteConfigs :
       LET trackingBase == findFromTrackingConfig(exec, value)
           usable == ~Falsy(trackingBase) /\ trackingBase # currentBranch
           branchRemote == OrElse(getBranchRemote(rc[1], rc[2]), remote)
       IN /\ exec = "ok" \/ value = RefsHeads \o main
          /\ usable \/ rc = <<"exit", <<>> >>
          /\ Follows([trackExec |-> exec, trackValue |-> value])
          /\ usable => Follows([rc |-> rc])
          /\ started' = Append(started, "Tracking")
          /\ embedded' = embedded \cup {currentBranch}
          /\ IF Thrown({exec, rc[1]})
               THEN pc' = "Raised" /\ UNCHANGED <<found, result, via>>
               ELSE Conclude("Tracking",
                             TrackingInfo(exec, value, rc, currentBranch, remote))
  /\ UNCHANGED <<repoVars, argVars, toolVars, unitVars, loopVars, faults>>

\* The keyword fallback and the end of findBaseBranch.
TryKeywordFallback ==
  /\ pc = "Keyword"
  /\ \E oL, oR \in ExecOutcome, lk \in RemoteLookups :
       \E locals \in {getLocalBranches(oL, currentBranch)},
          remotes \in {getRemoteBranches(oR, remote)} :
         \E selected \in {SelectByRules(KeywordCandidates(locals, remotes, currentBranch), 1)},
            keywordBase \in {findFromBranchNameKeywords(locals, remotes, currentBranch,
                                                        remote, lk)} :
           LET looksUp == ~Falsy(selected) /\ selected \notin Range(remotes)
           IN /\ faults + NonOk(<<oL, oR>>) <= budget
              /\ shell = "sh" => (oL = "ok" /\ oR = "ok")
              /\ faults' = faults + NonOk(<<oL, oR>>)
              /\ looksUp \/ lk = DefaultLookup
              /\ looksUp => Follows([lk |-> lk])
              /\ started' = Append(started, "Keyword")
              /\ embedded' = embedded \cup {remote}
                             \cup (IF looksUp THEN LookupNames(lk, selected) ELSE {})
              /\ IF Thrown({oL, oR, lk.cfgExec, lk.remExec})
                   THEN pc' = "Raised" /\ UNCHANGED <<found, result, via>>
                   ELSE Conclude("Keyword", keywordBase)
  /\ UNCHANGED <<repoVars, argVars, toolVars, unitVars, loopVars>>

\* The caller calls findBaseBranch again with the same arguments: nothing of
\* the first call is left but what it returned to the caller.
CallAgain ==
  /\ pc = "Done"
  /\ tool = "none"
  /\ calls = 1
  /\ calls' = 2
  /\ first' = [result |-> result, via |-> via, started |-> started]
  /\ pc' = "Start"
  /\ started' = <<>>
  /\ found' = [s \in Strategies |-> NoInfo]
  /\ result' = NoInfo
  /\ via' = "none"
  /\ embedded' = {}
  /\ faults' = 0
  /\ UNCHANGED <<repoVars, argVars, toolVars, validVars, loopVars, script, unitIn, unitOut>>

\* ------------------------------------- the call as a function of answers
\* What git answers during one findBaseBranch call: a.exec is the outcome of
\* each listing and text query, a.step[ref] the outcomes of the graph queries
\* about the candidate ref, a.localOrder and a.remoteOrder the order in which
\* git lists the branches (a permutation of the order by refname, <<>> for
\* that order itself), the rest what the text queries print.
Queries == {"locals", "remotes", "head", "reflog", "merge", "rc", "cfg", "rem",
            "klocals", "kremotes"}

Permuted(list, p) ==
  IF DOMAIN p = DOMAIN list THEN [k \in DOMAIN list |-> list[p[k]]] ELSE list

\* The answers to the queries of findRemoteForBranch.
LookupOf(a) ==
  [cfgExec |-> a.exec["cfg"], cfg |-> a.cfg, remExec |-> a.exec["rem"], remotes |-> a.remotes]

\* The two candidate loops of findFromGitHistory, local branches first, then
\* the remote branches that have no local namesake.
RECURSIVE ExamineAll(_, _, _, _, _, _)
ExamineAll(st, cands, cur, head, a, rem) ==
  IF cands = <<>> THEN st
  ELSE LET c == Head(cands)
           newRemote == IF c.local
                          THEN OrElse(findRemoteForBranch(LookupOf(a), c.branch), rem)
                          ELSE rem
       IN ExamineAll(ExamineCandidate(st, cur, head, c.branch, c.ref, a.step[c.ref],
                                      newRemote),
                     Tail(cands), cur, head, a, rem)

findFromGitHistory(cur, rem, a) ==
  LET locals == Permuted(getLocalBranches(a.exec["locals"], cur), a.localOrder)
      remotes == Permuted(getRemoteBranches(a.exec["remotes"], rem), a.remoteOrder)
      currentHeadResult == runGitCommand(Outcome(a.exec["head"], {cur}))
      head == IF currentHeadResult.output = "stdout" THEN HeadOf(cur) ELSE NoHash
      NotLocal(b) == b \notin Range(locals)
      unlisted == SelectSeq(remotes, NotLocal)
      cands == [k \in DOMAIN locals |->
                  [branch |-> locals[k], ref |-> locals[k], local |-> TRUE]]
               \o [k \in DOMAIN unlisted |->
                     [branch |-> unlisted[k], ref |-> RemoteRef(rem, unlisted[k]),
                      local |-> FALSE]]
      fresh == [uniqueBase |-> Null, uniqueRemote |-> Null, uniqueRef |-> Null,
                candidateCount |-> 0, hasAmbiguity |-> FALSE]
  IN IF currentHeadResult.exitCode # 0 THEN NoInfo
     ELSE HistoryResult(ExamineAll(fresh, cands, cur, head, a, rem), rem)

\* What each strategy returns on the answers a, and what findBaseBranch
\* returns: the result of the first strategy that has one.
findBaseBranch(cur, rem, a) ==
  LET reflogBase == findFromReflog(a.exec["reflog"], a.lines, cur)
      by == [s \in Strategies |->
               CASE s = "History" -> findFromGitHistory(cur, rem, a)
                 [] s = "Reflog" ->
                      IF Falsy(reflogBase) THEN NoInfo
                      ELSE BranchInfo(OrElse(findRemoteForBranch(LookupOf(a), reflogBase), rem),
                                      reflogBase)
                 [] s = "Tracking" ->
                      TrackingInfo(a.exec["merge"], a.value, <<a.exec["rc"], a.rcValue>>,
                                   cur, rem)
                 [] s = "Keyword" ->
                      findFromBranchNameKeywords(getLocalBranches(a.exec["klocals"], cur),
                                                 getRemoteBranches(a.exec["kremotes"], rem),
                                                 cur, rem, LookupOf(a))]
      raised == \/ Thrown(Range(a.exec))
                \/ \E r \in DOMAIN a.step : Thrown(Range(a.step[r]))
  IN IF Falsy(cur) THEN [raised |-> FALSE, by |-> [s \in Strategies |-> NoInfo],
                         result |-> NoInfo]
     ELSE [raised |-> raised, by |-> by,
           result |-> IF by["History"] # NoInfo THEN by["History"]
                      ELSE IF by["Reflog"] # NoInfo THEN by["Reflog"]
                      ELSE IF by["Tracking"] # NoInfo THEN by["Tracking"]
                      ELSE by["Keyword"]]

\* The answers a with the outcome of one query replaced: at is a text or
\* listing query, or the pair of a candidate ref and one of its graph queries.
Replaced(a, at, outcome) ==
  IF at \in Queries THEN [a EXCEPT !.exec[at] = outcome]
  ELSE [a EXCEPT !.step[at[1]][at[2]] = outcome]

\* The answers of a repository in which the queries in `failing` end as
\* `how` and all others complete: a listing or tip query is the pair of the
\* empty name and its label, a graph query the pair of the candidate's ref and
\* its label.  The lists come in the orders lo and ro.
Answers(failing, how, lo, ro) ==
  [exec |-> [q \in Queries |-> IF << <<>>, q>> \in failing THEN how ELSE "ok"],
   step |-> [r \in DOMAIN reach |->
               [q \in StepQueries |-> IF <<r, q>> \in failing THEN how ELSE "ok"]],
   localOrder |-> lo, remoteOrder |-> ro,
   lines |-> <<>>, value |-> <<>>, rcValue |-> <<>>,
   cfg |-> DefaultLookup.cfg, remotes |-> DefaultLookup.remotes]

\* The orders in which a list of n branches can be printed.
Orders(n) == { p \in [1..n -> 1..n] : \A i, j \in 1..n : p[i] = p[j] => i = j }

\* The queries findFromGitHistory can issue in the repository.
HistoryQueries ==
  ({<<>>} \X {"locals", "remotes", "head"}) \cup ((DOMAIN reach) \X StepQueries)

\* The sets of at most n queries.
RECURSIVE QuerySets(_)
QuerySets(n) ==
  IF n = 0 THEN {{}}
  ELSE QuerySets(n - 1) \cup { F \cup {q} : F \in QuerySets(n - 1), q \in HistoryQueries }

\* ------------------------------------------------------------ tool layer
\* Outcomes of the commands the tools issue themselves.
ToolExec == {"ok", "exit"}

\* The checked-out branch as git prints it: its name, or HEAD when detached.
HeadPrints == {repoLocal[1], HEADText}

\* Whether the tool compares branches at all: diffStats does so only when the
\* caller named a branch.
Compares == tool = "getPrDiff" \/ ~Falsy(argBase) \/ ~Falsy(argFeature)

\* The feature branch as it would be if get_pr_diff fell back to HEAD too.
FeatureOfHeadForAll(detected) ==
  IF ~Falsy(argFeature) THEN argFeature
  ELSE OrElse(detected, HEADText)

\* The feature branch the tool works on, given what getCurrentBranch returned.
FeatureOf(detected) ==
  IF ~Falsy(argFeature) THEN argFeature
  ELSE IF tool = "getPrDiff" THEN detected
  ELSE OrElse(detected, HEADText)

\* The tool up to its call of findBaseBranch: extractBranchParameters to the
\* base-branch detection, diffStats to the same point.
ToolEntry ==
  /\ pc = "Tool"
  /\ \E exec \in ToolExec, printed \in HeadPrints :
       LET asks == Compares /\ Falsy(argFeature)
           detected == getCurrentBranch(exec, printed)
           feature == FeatureOf(detected)
       IN /\ asks \/ (exec = "ok" /\ printed = repoLocal[1])
          /\ IF ~Compares
               THEN /\ pc' = "ToolDone"
                    /\ toolOut' = "success"
                    /\ UNCHANGED <<featureBranch, currentBranch>>
             ELSE IF Falsy(feature)
               THEN /\ pc' = "ToolDone"
                    /\ toolOut' = "error: current branch not detected"
                    /\ UNCHANGED <<featureBranch, currentBranch>>
             ELSE /\ featureBranch' = feature
                  /\ toolOut' = toolOut
                  /\ IF Falsy(argBase)
                       THEN pc' = "Start" /\ currentBranch' = feature
                       ELSE pc' = "Resume" /\ UNCHANGED currentBranch
  /\ UNCHANGED <<repoVars, remote, budget, loopVars, started, found, result, via, embedded,
                 faults, tool, argBase, argFeature, toolCmds, usedBase, unitVars>>

\* What the tool does with the names once the base branch is settled, given
\* the outcomes of its fetch and diff commands: <<output, commands, names>>.
getPrDiff(info, oFetch, oDiff) ==
  LET rem == IF Falsy(argBase) THEN info.remote ELSE origin
      base == IF Falsy(argBase) THEN info.baseBranch ELSE argBase
  IN IF Falsy(argBase) /\ info = NoInfo
       THEN <<"error: specify baseBranch", {}, {}, Null>>
     ELSE IF ~isValidBranchName(rem)
       THEN <<"error: invalid remote", {}, {}, Null>>
     ELSE IF ~isValidBranchName(base)
       THEN <<"error: invalid base branch", {}, {}, Null>>
     ELSE IF ~isValidBranchName(featureBranch)
       THEN <<"error: invalid feature branch", {}, {}, Null>>
     ELSE IF runGitCommand(oFetch).exitCode # 0
       THEN <<"error: git fetch failed", {"fetch"}, {rem}, Null>>
     ELSE IF runGitCommand(oDiff).exitCode # 0
       THEN <<"error: git diff failed", {"fetch", "diff"}, {rem, base, featureBranch}, base>>
     ELSE <<"success", {"fetch", "diff"}, {rem, base, featureBranch}, base>>

diffStats(info) ==
  LET base == IF ~Falsy(argBase) THEN argBase
              ELSE IF info = NoInfo THEN main
              ELSE info.baseBranch
  IN <<"success", {"fetch", "diff", "rev-list"}, {base, featureBranch}, base>>

\* The tool from the return of findBaseBranch (or from the caller's base
\* branch) to its own return.
ToolFinish ==
  /\ tool # "none"
  /\ pc \in {"Done", "Resume"}
  /\ \E oFetch, oDiff \in ToolExec :
       LET did == IF tool = "getPrDiff" THEN getPrDiff(result, oFetch, oDiff)
                  ELSE diffStats(result)
       IN /\ ("fetch" \in did[2] /\ tool = "getPrDiff") \/ oFetch = "ok"
          /\ ("diff" \in did[2] /\ tool = "getPrDiff") \/ oDiff = "ok"
          /\ toolOut' = did[1]
          /\ toolCmds' = did[2]
          /\ embedded' = embedded \cup did[3]
          /\ usedBase' = did[4]
  /\ pc' = "ToolDone"
  /\ UNCHANGED <<repoVars, argVars, loopVars, started, found, result, via, faults,
                 tool, argBase, argFeature, featureBranch, unitVars>>

\* ------------------------------------------------------------- validator
\* The two validators applied to one name.
ValidateName ==
  /\ pc = "Valid"
  /\ ~vChecked
  /\ vChecked' = TRUE
  /\ vAccepted' = isValidBranchName(vName)
  /\ vOutcome' = validateBranchName(vName)
  /\ UNCHANGED <<repoVars, argVars, pc, loopVars, started, found, result, via, embedded,
                 faults, toolVars, vName, sessionVars, unitIn, unitOut>>

\* ------------------------------------------------- functions on their own
\* findFromReflog on the output of `reflog show <cur> --format=%gs`: the
\* lines git printed, newest first.
ApplyFindFromReflog ==
  /\ pc = "ReflogUnit"
  /\ unitOut' = findFromReflog(unitIn.exec,
                                [k \in DOMAIN unitIn.lines |-> ParseLine(unitIn.lines[k])],
                                unitIn.cur)
  /\ pc' = "ReflogDone"
  /\ UNCHANGED <<repoVars, argVars, loopVars, started, found, result, via, embedded,
                 faults, toolVars, validVars, sessionVars, unitIn>>

\* The tracking step on what the two `config --get` commands answer.
ApplyTracking ==
  /\ pc = "TrackingUnit"
  /\ unitOut' = TrackingInfo(unitIn.exec, unitIn.value, unitIn.rc, unitIn.cur,
                              unitIn.remote)
  /\ pc' = "TrackingDone"
  /\ UNCHANGED <<repoVars, argVars, loopVars, started, found, result, via, embedded,
                 faults, toolVars, validVars, sessionVars, unitIn>>

\* The keyword fallback on the branch lists it was given.
ApplyKeywordFallback ==
  /\ pc = "KeywordUnit"
  /\ unitOut' = findFromBranchNameKeywords(unitIn.locals, unitIn.remotes, unitIn.cur,
                                            unitIn.remote, unitIn.lk)
  /\ pc' = "KeywordDone"
  /\ UNCHANGED <<repoVars, argVars, loopVars, started, found, result, via, embedded,
                 faults, toolVars, validVars, sessionVars, unitIn>>

\* The executor on one child process.
ApplyRunGitCommand ==
  /\ pc = "ExecUnit"
  /\ unitOut' = GitCommandResult(unitIn.child, unitIn.args, unitIn.timeoutMs)
  /\ pc' = "ExecDone"
  /\ UNCHANGED <<repoVars, argVars, loopVars, started, found, result, via, embedded,
                 faults, toolVars, validVars, sessionVars, unitIn>>

\* ------------------------------------------- the queries of one call in time
\* One findBaseBranch call followed query by query. unitIn is the caller's
\* position: `at` is the line of findBaseBranch, findFromGitHistory or
\* findFromBranchNameKeywords whose query is next, `sub` the line inside
\* findRemoteForBranch when `at` is one of its calls, i and j the turns of the
\* two candidate loops over nL local and nR remote-only branches, k the turn
\* of the loop over nK remotes, `some` whether a candidate was counted.
\* unitOut is the number of git subprocesses started and not yet completed.
\* findFromGitHistory on one repository: with every query completing, with
\* the queries of unitIn.failing failing, and with the two lists printed in
\* every order.
ApplyHistory ==
  /\ pc = "HistoryUnit"
  /\ unitOut' =
       [plain |-> findFromGitHistory(unitIn.cur, remote, Answers({}, "ok", <<>>, <<>>)),
        failed |-> findFromGitHistory(unitIn.cur, remote,
                                      Answers(unitIn.failing, unitIn.how, <<>>, <<>>)),
        orders |-> { findFromGitHistory(unitIn.cur, remote, Answers({}, "ok", lo, ro)) :
                       lo \in Orders(Len(getLocalBranches("ok", unitIn.cur))),
                       ro \in Orders(Len(getRemoteBranches("ok", remote))) }]
  /\ pc' = "HistoryDone"
  /\ UNCHANGED <<repoVars, argVars, loopVars, started, found, result, via, embedded,
                 faults, toolVars, validVars, sessionVars, unitIn>>

\* What a query answers is left open: every branch the code can take on some
\* answer is a possible next position.
MaxListed == 2
MaxRemotes == 2

\* The queries of the two candidate loops started without being awaited, as
\* when the candidates are examined side by side.
AwaitedOutsideLoops(at) == at \notin {"384", "391", "402", "407", "439", "442", "453", "458"}

\* Whether the query at a position is awaited before the caller goes on.
Awaited(at) == TRUE

\* The positions the caller can be at after the query at f has answered.
\* HistoryEnd is line 487: a result only with a candidate, none on ambiguity;
\* AfterFindRemote is where the caller of findRemoteForBranch continues.
AfterQuery(f) ==
  LET Returned(g) == [g EXCEPT !.at = "return", !.sub = "none"]
      ReflogAt(g) == [g EXCEPT !.at = "204", !.sub = "none"]
      HistoryEnd(g) == IF g.some THEN {Returned(g), ReflogAt(g)} ELSE {ReflogAt(g)}
      RemoteAt(g, j) ==
        IF j <= g.nR THEN {[g EXCEPT !.at = "439", !.sub = "none", !.j = j]}
        ELSE HistoryEnd(g)
      LocalAt(g, i) ==
        IF i <= g.nL THEN {[g EXCEPT !.at = "384", !.sub = "none", !.i = i]}
        ELSE RemoteAt(g, 1)
      FindRemoteAt(g, at) == [g EXCEPT !.at = at, !.sub = "323"]
      AfterFindRemote ==
        IF f.at \in {"398", "416", "424"} THEN LocalAt(f, f.i + 1) ELSE {Returned(f)}
  IN
  CASE f.sub = "323" -> AfterFindRemote \cup {[f EXCEPT !.sub = "329"]}
    [] f.sub = "329" -> AfterFindRemote
                          \cup {[f EXCEPT !.sub = "335", !.k = 1, !.nK = n] : n \in 1..MaxRemotes}
    [] f.sub = "335" -> AfterFindRemote
                          \cup (IF f.k < f.nK THEN {[f EXCEPT !.k = f.k + 1]} ELSE {})
    [] f.at = "362" -> {[f EXCEPT !.at = "363", !.nL = n] : n \in 0..MaxListed}
    [] f.at = "363" -> {[f EXCEPT !.at = "366", !.nR = n] : n \in 0..MaxListed}
    [] f.at = "366" -> {ReflogAt(f)} \cup LocalAt(f, 1)
    [] f.at = "384" -> LocalAt(f, f.i + 1) \cup {[f EXCEPT !.at = "391"]}
    [] f.at = "391" -> LocalAt(f, f.i + 1)
                         \cup (IF f.some THEN {[f EXCEPT !.at = "402"]}
                               ELSE {FindRemoteAt([f EXCEPT !.some = TRUE], "398")})
    [] f.at = "402" -> {[f EXCEPT !.at = "407"]}
    [] f.at = "407" -> LocalAt(f, f.i + 1)
                         \cup {FindRemoteAt(f, "416"), FindRemoteAt(f, "424")}
    [] f.at = "439" -> RemoteAt(f, f.j + 1) \cup {[f EXCEPT !.at = "442"]}
    [] f.at = "442" -> RemoteAt(f, f.j + 1)
                         \cup (IF f.some THEN {[f EXCEPT !.at = "453"]}
                               ELSE RemoteAt([f EXCEPT !.some = TRUE], f.j + 1))
    [] f.at = "453" -> {[f EXCEPT !.at = "458"]}
    [] f.at = "458" -> RemoteAt(f, f.j + 1)
    [] f.at = "204" -> {FindRemoteAt(f, "206"), [f EXCEPT !.at = "211"]}
    [] f.at = "211" -> {[f EXCEPT !.at = "213"], [f EXCEPT !.at = "544"]}
    [] f.at = "213" -> {Returned(f)}
    [] f.at = "544" -> {[f EXCEPT !.at = "545"]}
    [] f.at = "545" -> {Returned(f), FindRemoteAt(f, "566")}

\* The git command as it would be if the history strategy refreshed the
\* remote before listing its branches.
CommandAtFetching(line) ==
  CASE line = "363" -> "fetch"
    [] line \in {"362", "544"} -> "branch --list"
    [] line = "545" -> "branch -r --list"
    [] line = "366" -> "rev-parse"
    [] line \in {"384", "439"} -> "merge-base"
    [] line \in {"391", "402", "407", "442", "453", "458"} -> "rev-list --count"
    [] line = "204" -> "reflog show"
    [] line \in {"211", "213", "323"} -> "config --get"
    [] line = "329" -> "remote"
    [] line = "335" -> "show-ref --verify --quiet"

\* The git command of the query issued at a position: the helper called
\* there and the command string it hands to runGitCommand.
CommandAt(line) ==
  CASE line \in {"362", "544"} -> "branch --list"
    [] line \in {"363", "545"} -> "branch -r --list"
    [] line = "366" -> "rev-parse"
    [] line \in {"384", "439"} -> "merge-base"
    [] line \in {"391", "402", "407", "442", "453", "458"} -> "rev-list --count"
    [] line = "204" -> "reflog show"
    [] line \in {"211", "213", "323"} -> "config --get"
    [] line = "329" -> "remote"
    [] line = "335" -> "show-ref --verify --quiet"

\* The caller starts the subprocess of its next query and, awaiting it, is
\* suspended; a query that is not awaited lets the caller go on at once.
IssueQuery ==
  /\ pc = "Query"
  /\ unitOut' = unitOut + 1
  /\ IF Awaited(IF unitIn.sub = "none" THEN unitIn.at ELSE unitIn.sub)
       THEN pc' = "Await" /\ unitIn' = unitIn
       ELSE /\ unitIn' \in AfterQuery(unitIn)
            /\ pc' = IF unitIn'.at = "return" THEN "Returned" ELSE "Query"
  /\ UNCHANGED <<repoVars, argVars, loopVars, started, found, result, via, embedded,
                 faults, toolVars, validVars, sessionVars>>

\* A subprocess completes; the caller suspended on it resumes with its answer.
QueryDone ==
  /\ pc \in {"Query", "Await", "Returned"}
  /\ unitOut > 0
  /\ unitOut' = unitOut - 1
  /\ IF pc = "Await"
       THEN /\ unitIn' \in AfterQuery(unitIn)
            /\ pc' = IF unitIn'.at = "return" THEN "Returned" ELSE "Query"
       ELSE UNCHANGED <<pc, unitIn>>
  /\ UNCHANGED <<repoVars, argVars, loopVars, started, found, result, via, embedded,
                 faults, toolVars, validVars, sessionVars>>

\* findBaseBranch on answers in which the query unitIn.at ends in each of the
\* ways a query can end.
ApplyOutcomes ==
  /\ pc = "AnswersUnit"
  /\ unitOut' = [e \in ExecOutcome |->
                   findBaseBranch(unitIn.cur, remote, Replaced(unitIn.a, unitIn.at, e))]
  /\ pc' = "AnswersDone"
  /\ UNCHANGED <<repoVars, argVars, loopVars, started, found, result, via, embedded,
                 faults, toolVars, validVars, sessionVars, unitIn>>

\* ------------------------------------------------------------------ Init
\* The branch names of the repositories, in the order git lists them (by
\* refname).  The remote may hold a copy of the current branch.
LocalNames == <<evil, main, release1>>
RemoteNames == <<dev, feat, release1>>

\* The subsequences of s of at most n elements.
SubSeqs(s, n) ==
  { [k \in DOMAIN pick |-> s[pick[k]]] :
      pick \in { p \in UNION { [1..m -> DOMAIN s] : m \in 0..n } :
                   \A j, k \in DOMAIN p : j < k => p[j] < p[k] } }

\* The remote's symbolic ref HEAD, which `branch -r` lists like a branch.
PointerRef == RemoteRef(origin, HEADText)

\* A repository of up to nCommit commits besides the root whose current branch
\* is cur, with up to nLocal other local branches and up to nRemote branches
\* under origin, one of which origin/HEAD may point at.
RepoInit(cur, nCommit, nLocal, nRemote) ==
  \E others \in SubSeqs(LocalNames, nLocal), rem \in SubSeqs(RemoteNames, nRemote) :
    \E target \in {Null} \cup Range(rem) :
      \E tips \in [ {cur} \cup Range(others) \cup { RemoteRef(origin, b) : b \in Range(rem) }
                    -> SUBSET (1..nCommit) ] :
        /\ shell \in {"cmd", "sh"}
        /\ repoLocal = <<cur>> \o others
        /\ repoRemote = (IF target = Null THEN <<>> ELSE <<PointerRef>>)
                        \o [k \in DOMAIN rem |-> RemoteRef(origin, rem[k])]
        /\ reach = IF target = Null THEN tips
                   ELSE [r \in DOMAIN tips \cup {PointerRef} |->
                           IF r = PointerRef THEN tips[RemoteRef(origin, target)]
                           ELSE tips[r]]

EngineIdle ==
  /\ remote = origin
  /\ LoopIdle
  /\ started = <<>>
  /\ found = [s \in Strategies |-> NoInfo]
  /\ result = NoInfo
  /\ via = "none"
  /\ embedded = {}
  /\ faults = 0

ToolIdle ==
  /\ tool = "none"
  /\ argBase = Null
  /\ argFeature = Null
  /\ featureBranch = Null
  /\ toolOut = "none"
  /\ toolCmds = {}
  /\ usedBase = Null

ValidIdle ==
  /\ vName = Null
  /\ vChecked = FALSE
  /\ vAccepted = FALSE
  /\ vOutcome = "none"

\* No call before this one, and no function applied on its own.
NoCall == [result |-> NoInfo, via |-> "none", started |-> <<>>]

UnitIdle ==
  /\ calls = 1
  /\ first = NoCall
  /\ unitIn = Null
  /\ unitOut = Null

\* A direct call of findBaseBranch for the branch cur.
CallInit(cur) ==
  /\ currentBranch = cur
  /\ pc = "Start"
  /\ EngineIdle
  /\ ToolIdle
  /\ ValidIdle
  /\ UnitIdle
  /\ script = Free

\* The call is made for the checked-out branch, or with an empty name.
Init ==
  /\ RepoInit(feat, OrchCommit, OrchLocal, OrchRemote)
  /\ budget = MaxFaults
  /\ \E cur \in {feat, <<>>} : CallInit(cur)

InitHistory ==
  /\ RepoInit(feat, MaxCommit, MaxLocal, MaxRemote)
  /\ budget = HistFaults
  /\ CallInit(feat)

\* A tool is called with or without a base branch and a feature branch.
InitTool ==
  /\ RepoInit(feat, OrchCommit, OrchLocal, OrchRemote)
  /\ budget = MaxFaults
  /\ currentBranch = Null
  /\ pc = "Tool"
  /\ EngineIdle
  /\ ValidIdle
  /\ UnitIdle
  /\ script = Free
  /\ tool \in {"getPrDiff", "diffStats"}
  /\ argBase \in {Null, main}
  /\ argFeature \in {Null, evil}
  /\ featureBranch = Null
  /\ toolOut = "none"
  /\ toolCmds = {}
  /\ usedBase = Null

\* The answers of an untouched repository to the text queries: the reflog of
\* the current branch, its tracking configuration, and the remotes.
Scripts ==
  { a \in [fixed : {TRUE}, reflogExec : {"ok", "exit"},
            reflogLines : {<<>>, <<CreatedFrom(RemoteRef(origin, main))>>,
                           <<CreatedFrom(HEADText)>>},
            trackExec : {"ok", "exit"},
            trackValue : {RefsHeads \o main, RefsHeads \o feat},
            rc : {<<"ok", upstream>>, <<"exit", <<>> >>},
            lk : RemoteLookups] :
      /\ a.reflogExec = "ok" \/ a.reflogLines = <<>>
      /\ a.trackExec = "ok" \/ a.trackValue = RefsHeads \o main }

\* Two calls in succession on a repository whose answers are fixed.
InitTwice ==
  /\ RepoInit(feat, OrchCommit, OrchLocal, OrchRemote)
  /\ budget = 0
  /\ currentBranch = feat
  /\ pc = "Start"
  /\ EngineIdle
  /\ ToolIdle
  /\ ValidIdle
  /\ UnitIdle
  /\ script \in Scripts

\* No repository and no call: a function is applied on its own.
NoEngine ==
  /\ shell = "sh"
  /\ repoLocal = <<feat>>
  /\ repoRemote = <<>>
  /\ reach = [r \in {feat} |-> {}]
  /\ currentBranch = Null
  /\ budget = 0
  /\ EngineIdle
  /\ ToolIdle
  /\ ValidIdle
  /\ script = Free
  /\ calls = 1
  /\ first = NoCall

\* Reflogs of the branch feat, of at most MaxReflogLines lines.
MaxReflogLines == 2
hashRef == RemoteRef(origin, hash7)
slashName == RemoteRef(release, <<"x">>)
originHead == RemoteRef(origin, HEADText)
ReflogSources ==
  {main, RemoteRef(origin, develop), HEADText, originHead, hash7, hashRef, slashName}
ReflogTexts ==
  { CreatedText(src) : src \in ReflogSources }
  \cup { MovingText(dev, feat), MovingText(hash7, feat), MovingText(HEADText, feat),
         MovingText(main, dev), OtherText }

InitReflog ==
  /\ NoEngine
  /\ pc = "ReflogUnit"
  /\ unitOut = Null
  /\ unitIn \in [exec : TextExec, cur : {feat},
                  lines : UNION { [1..n -> ReflogTexts] : n \in 0..MaxReflogLines }]

\* The merge refs a branch may be configured with, and the configurations of
\* a branch's remote with every outcome of the command.
MergeRefs == {RefsHeads \o main, develop, RefsHeads \o feat, feat}

InitTracking ==
  /\ NoEngine
  /\ pc = "TrackingUnit"
  /\ unitOut = Null
  /\ unitIn \in [exec : ExecOutcome, value : MergeRefs, rc : ExecOutcome \X {upstream},
                  cur : {feat, main}, remote : {origin}]

\* Branch lists for the keyword fallback, in git's order (by refname): up to
\* MaxKeywordLocal local branches besides feat, up to MaxKeywordRemote under
\* the remote.
MaxKeywordLocal == 3
MaxKeywordRemote == 2
Release == <<"R","e","l","e","a","s","e">>
release2024 == <<"r","e","l","e","a","s","e","-","2","0","2","4">>
releaseA == <<"r","e","l","e","a","s","e","-","a">>
releaseB == <<"r","e","l","e","a","s","e","-","b">>
KeywordLocals == <<Release, dev, main, release, release2024, releaseA, releaseB>>
KeywordRemotes == <<dev, feat, main, releaseA>>

InitKeyword ==
  /\ NoEngine
  /\ pc = "KeywordUnit"
  /\ unitOut = Null
  /\ unitIn \in [locals : SubSeqs(KeywordLocals, MaxKeywordLocal),
                  remotes : SubSeqs(KeywordRemotes, MaxKeywordRemote),
                  cur : {feat}, remote : {origin}, lk : RemoteLookups]

\* The ways a child process ends, with and without text on each stream and
\* in the error's message.
ChildOutcomes ==
  [kind : {"exit"}, code : {0, 1, 128}, stdout : {<<>>, <<"o">>},
   stderr : {<<>>, <<"e">>}, message : {<<>>, <<"m">>}]
  \cup [kind : {"timeout", "signal", "spawn", "overflow"}, code : {0},
        stdout : {<<>>, <<"o">>}, stderr : {<<>>, <<"e">>}, message : {<<>>, <<"m">>}]

InitExec ==
  /\ NoEngine
  /\ pc = "ExecUnit"
  /\ unitOut = Null
  /\ unitIn \in [child : ChildOutcomes,
                  args : {"rev-parse --abbrev-ref HEAD", "fetch origin"},
                  timeoutMs : {DEFAULT_TIMEOUT_MS, 1000}]

\* findBaseBranch entered with a working directory and a branch: the first
\* query is the one of line 362.
InitAwait ==
  /\ NoEngine
  /\ pc = "Query"
  /\ unitOut = 0
  /\ unitIn = [at |-> "362", sub |-> "none", i |-> 0, j |-> 0, k |-> 0,
               nL |-> 0, nR |-> 0, nK |-> 0, some |-> FALSE]

\* A repository, answers in which every query succeeds, and one query whose
\* outcome is varied.
InitOutcomes ==
  /\ RepoInit(feat, OrchCommit, OrchLocal, OrchRemote)
  /\ currentBranch = Null
  /\ budget = 0
  /\ EngineIdle
  /\ ToolIdle
  /\ ValidIdle
  /\ script = Free
  /\ calls = 1
  /\ first = NoCall
  /\ pc = "AnswersUnit"
  /\ unitOut = Null
  /\ \E lines \in {<<>>, <<CreatedFrom(RemoteRef(origin, main))>>},
        value \in {RefsHeads \o main, RefsHeads \o feat},
        lk \in RemoteLookups,
        at \in Queries \cup ((DOMAIN reach) \X StepQueries) :
       unitIn = [cur |-> feat, at |-> at,
                 a |-> [exec |-> [q \in Queries |-> "ok"],
                        step |-> [r \in DOMAIN reach |-> [q \in StepQueries |-> "ok"]],
                        localOrder |-> <<>>, remoteOrder |-> <<>>,
                        lines |-> lines, value |-> value, rcValue |-> upstream,
                        cfg |-> lk.cfg, remotes |-> lk.remotes]]

\* The characters of the names handed to the validators.
NameChars == {"a", "Z", "7", "/", "_", ".", "-", " ", ";", "~"}

NamesUpTo(n) == UNION { [1..k -> NameChars] : k \in 0..n }

\* Repositories for findFromGitHistory on its own: larger ones in which every
\* query completes, smaller ones in which up to MaxFailing queries fail, by
\* their exit code or by their deadline.
InitVariations ==
  /\ \/ /\ RepoInit(feat, OrderCommit, OrderLocal, OrderRemote)
        /\ unitIn = [cur |-> feat, failing |-> {}, how |-> "exit"]
     \/ /\ RepoInit(feat, FailCommit, FailLocal, FailRemote)
        /\ \E failing \in QuerySets(MaxFailing) \ {{}}, how \in {"exit", "killed"} :
             unitIn = [cur |-> feat, failing |-> failing, how |-> how]
  /\ currentBranch = Null
  /\ budget = 0
  /\ EngineIdle
  /\ ToolIdle
  /\ ValidIdle
  /\ script = Free
  /\ calls = 1
  /\ first = NoCall
  /\ pc = "HistoryUnit"
  /\ unitOut = Null

InitValid ==
  /\ shell = "sh"
  /\ repoLocal = <<feat>>
  /\ repoRemote = <<>>
  /\ reach = [r \in {feat} |-> {}]
  /\ currentBranch = Null
  /\ budget = 0
  /\ pc = "Valid"
  /\ EngineIdle
  /\ ToolIdle
  /\ UnitIdle
  /\ script = Free
  /\ vName \in NamesUpTo(MaxNameLen) \cup {Null}
  /\ vChecked = FALSE
  /\ vAccepted = FALSE
  /\ vOutcome = "none"

NextHistory ==
  \/ TryHistory
  \/ HistoryLocal
  \/ HistoryRemote
  \/ HistoryReturn

Next ==
  \/ TryHistory
  \/ HistoryLocal
  \/ HistoryRemote
  \/ HistoryReturn
  \/ TryReflog
  \/ TryTrackingConfig
  \/ TryKeywordFallback

NextTool ==
  \/ ToolEntry
  \/ TryHistory
  \/ HistoryLocal
  \/ HistoryRemote
  \/ HistoryReturn
  \/ TryReflog
  \/ TryTrackingConfig
  \/ TryKeywordFallback
  \/ ToolFinish

NextTwice ==
  \/ Next
  \/ CallAgain

vars == <<shell, repoLocal, repoRemote, reach, currentBranch, remote, pc, idx, localBranches,
          remoteBranches, currentHead, uniqueBase, uniqueRemote, uniqueRef, candidateCount,
          hasAmbiguity, obs, started, found, result, via, embedded, faults, budget,
          tool, argBase, argFeature, featureBranch, toolOut, toolCmds, usedBase,
          vName, vChecked, vAccepted, vOutcome, script, calls, first, unitIn, unitOut>>

\* findBaseBranch called directly.
Spec == Init /\ [][Next]_vars

\* findBaseBranch called directly, every awaited query returning: a git
\* command that does not end by itself is ended by the executor's deadline,
\* so the step that waits for it is taken.
SpecLive == Init /\ [][Next]_vars /\ WF_vars(Next)

\* findFromGitHistory alone, on the larger repositories.
SpecHistory == InitHistory /\ [][NextHistory]_vars

\* get_pr_diff and diff_stats, with the resolution they start.
SpecTool == InitTool /\ [][NextTool]_vars

\* findBaseBranch called twice on an unchanged repository.
SpecTwice == InitTwice /\ [][NextTwice]_vars

\* findFromReflog on every short reflog.
SpecReflog == InitReflog /\ [][ApplyFindFromReflog]_vars

\* The tracking step on every configuration.
SpecTracking == InitTracking /\ [][ApplyTracking]_vars

\* The keyword fallback on every short pair of branch lists.
SpecKeyword == InitKeyword /\ [][ApplyKeywordFallback]_vars

\* The executor on every way a child process ends.
SpecExec == InitExec /\ [][ApplyRunGitCommand]_vars

NextAwait ==
  \/ IssueQuery
  \/ QueryDone

\* One findBaseBranch call, query by query.
SpecAwait == InitAwait /\ [][NextAwait]_vars

\* findBaseBranch with one query ending in every way.
SpecOutcomes == InitOutcomes /\ [][ApplyOutcomes]_vars

\* findFromGitHistory under every order of the lists and under failures.
SpecVariations == InitVariations /\ [][ApplyHistory]_vars

\* The validators on every short name.
SpecValid == InitValid /\ [][ValidateName]_vars

\* ============================================================ properties
StrategyOrder == <<"History", "Reflog", "Tracking", "Keyword">>

\* C1: the strategies start in the order History, Reflog, Tracking-config,
\* Keyword-fallback, each only when every earlier one returned no result; the
\* first result a strategy returns is the result of findBaseBranch, and
\* nothing is started after it.
C1_FixedOrder ==
  /\ Len(started) <= Len(StrategyOrder)
  /\ \A k \in DOMAIN started :
       /\ started[k] = StrategyOrder[k]
       /\ \A j \in 1..(k - 1) : found[started[j]] = NoInfo
  /\ \A s \in Strategies :
       found[s] # NoInfo =>
         /\ pc = "Done"
         /\ s = started[Len(started)]
         /\ result = found[s]
         /\ via = s
  /\ result # NoInfo => found[via] = result
  /\ pc = "Keyword" => started = <<"History", "Reflog", "Tracking">>

\* The tracking configuration resolved the base after History and the reflog
\* returned nothing; the keyword fallback was not started.
C1_Witness ==
  /\ pc = "Done"
  /\ started = <<"History", "Reflog", "Tracking">>
  /\ via = "Tracking"
  /\ result # NoInfo

\* C2: whatever the git commands do, findBaseBranch does not raise; it returns
\* unknown exactly when no strategy returned a result, and for a branch name
\* that is not empty that is when all four ran and returned none.
C2_NeverRaises ==
  /\ pc # "Raised"
  /\ pc = "Done" =>
       /\ result = NoInfo <=> \A s \in Strategies : found[s] = NoInfo
       /\ (result = NoInfo /\ ~Falsy(currentBranch)) => started = StrategyOrder
       /\ result # NoInfo => ~Falsy(result.baseBranch) /\ result.remote # Null

\* All four strategies ran, one git query failed, and the answer is unknown.
C2_Witness ==
  /\ pc = "Done"
  /\ result = NoInfo
  /\ started = StrategyOrder
  /\ faults = 1

\* The refs of the repository besides the current branch; a ref under the
\* remote stands for the branch named after the remote's prefix.
OtherRefs == DOMAIN reach \ {currentBranch, PointerRef}
IsRemoteRef(r) == StartsWith(r, remote \o <<"/">>)
BranchOf(r) == IF IsRemoteRef(r) THEN Slice(r, Len(remote) + 1) ELSE r
\* A remote branch with a local namesake other than the current branch.
Shadowed(r) == IsRemoteRef(r) /\ BranchOf(r) \in OtherRefs
Examined == { r \in OtherRefs : ~Shadowed(r) }
\* The refs among refs that the current branch is strictly ahead of.
Behind(refs) == { r \in refs : Ahead(currentBranch, r) }

\* C3: when exactly one other branch is such that the current branch is
\* strictly ahead of it, and that branch is not ahead of the current one, the
\* History strategy returns it.  The branches counted are those the strategy
\* is meant to examine: the other local branches and the remote's branches
\* that have no local namesake; every git query it issues succeeds.
C3_UniqueAncestor ==
  (pc = "HistReturn" /\ faults = 0) =>
    \A b \in Examined :
      (Behind(Examined) = {b} /\ ~Ahead(b, currentBranch)) =>
        HistoryResult(Loop, remote).baseBranch = BranchOf(b)

\* Of two such branches the current one is ahead of exactly one, a branch of
\* the remote, and the strategy is about to return it.
C3_Witness ==
  /\ pc = "HistReturn"
  /\ faults = 0
  /\ Cardinality(Examined) >= 2
  /\ \E b \in Examined :
       /\ IsRemoteRef(b)
       /\ Behind(Examined) = {b}
       /\ ~Ahead(b, currentBranch)
       /\ HistoryResult(Loop, remote).baseBranch = BranchOf(b)

\* The exact keywords of the fallback.
ExactKeyword(name) == ToLowerCase(name) \in Range(KeywordRules)

Acceptable ==
  { r \in Examined :
      Accepts(MergeBaseOf(currentBranch, r), HeadOf(currentBranch), Ahead(currentBranch, r)) }

LongLived(name) ==
  \/ name \in {main, master, develop, dev, trunk, release}
  \/ \E prefix \in {release, hotfix}, sep \in {"/", "-"} :
       StartsWith(name, Append(prefix, sep))

\* C6: when the kept candidate and a newly accepted one are compared and
\* exactly one is ahead of the other, the strategy keeps the one with a
\* long-lived name if exactly one has such a name, and otherwise the one that
\* is ahead (the child); the candidate count is then one.
C6_TieBreak ==
  [][ (pc \in {"HistLocal", "HistRemote"} /\ obs'.compared /\ obs'.newer # obs'.prev) =>
        LET child == IF obs'.newer THEN obs'.branch ELSE uniqueBase
        IN /\ candidateCount' = 1
           /\ uniqueBase' =
                IF LongLived(uniqueBase) /\ ~LongLived(obs'.branch) THEN uniqueBase
                ELSE IF LongLived(obs'.branch) /\ ~LongLived(uniqueBase) THEN obs'.branch
                ELSE child
    ]_vars

\* A child without a long-lived name was compared with main, and main was kept.
C6_Witness ==
  /\ pc \in {"HistLocal", "HistRemote", "HistReturn"}
  /\ obs.compared
  /\ obs.newer
  /\ ~obs.prev
  /\ ~LongLived(obs.branch)
  /\ uniqueBase = main
  /\ candidateCount = 1

\* C7 as stated: the base branch findBaseBranch returns exists in the
\* repository, locally or under a remote, and the current branch is strictly
\* ahead of it.
C7_ExistsAndBehind ==
  (pc = "Done" /\ result # NoInfo) =>
    \E ref \in DOMAIN reach :
      /\ \/ ref = result.baseBranch
         \/ \E r \in {origin, upstream} : ref = RemoteRef(r, result.baseBranch)
      /\ Ahead(currentBranch, ref)

\* C7, amended: a result of the History strategy names a ref that exists and
\* that the current branch is strictly ahead of; a result of the keyword
\* fallback names a listed branch other than the current one.
C7_HistoryAndKeyword ==
  /\ (pc = "HistReturn" /\ HistoryResult(Loop, remote) # NoInfo) =>
       /\ uniqueRef \in DOMAIN reach
       /\ uniqueBase = BranchOf(uniqueRef)
       /\ HistoryResult(Loop, remote).baseBranch = uniqueBase
       /\ Ahead(currentBranch, uniqueRef)
  /\ (pc = "Done" /\ via = "History") =>
       \E ref \in DOMAIN reach :
         BranchOf(ref) = result.baseBranch /\ Ahead(currentBranch, ref)
  /\ (pc = "Done" /\ via = "Keyword") =>
       /\ result.baseBranch # currentBranch
       /\ \E ref \in DOMAIN reach : BranchOf(ref) = result.baseBranch

\* History returned a branch of the remote that the current branch is ahead of.
C7_Witness ==
  /\ pc = "Done"
  /\ via = "History"
  /\ result.baseBranch = dev
  /\ Ahead(currentBranch, RemoteRef(origin, dev))

\* C8: when findBaseBranch returned unknown and the caller gave no base
\* branch, the tool returns the error asking for baseBranch, names no default
\* branch and issues no fetch or diff command.
C8_AsksForBase ==
  (pc = "ToolDone" /\ Falsy(argBase) /\ started # <<>> /\ result = NoInfo) =>
    /\ toolOut = "error: specify baseBranch"
    /\ toolCmds = {}
    /\ usedBase = Null

\* get_pr_diff after an unknown base: the error, and no command.
C8_Witness ==
  /\ pc = "ToolDone"
  /\ tool = "getPrDiff"
  /\ Falsy(argBase)
  /\ started = StrategyOrder
  /\ result = NoInfo
  /\ toolOut = "error: specify baseBranch"
  /\ toolCmds = {}

\* C9: every name put into a git command string is one that branch-name
\* validation passes.
C9_EmbeddedValidated ==
  \A n \in embedded : isValidBranchName(n) \/ validateBranchName(n) = "ok"

\* get_pr_diff given a base branch refuses an invalid feature branch before
\* any command.
C9_Witness ==
  /\ pc = "ToolDone"
  /\ tool = "getPrDiff"
  /\ argFeature = evil
  /\ toolOut = "error: invalid feature branch"
  /\ embedded = {}

\* The names the validation is said to accept.
ClaimedValid(name) ==
  /\ ~Falsy(name)
  /\ \A k \in DOMAIN name : name[k] \in BranchNameChars \cup {"."}
  /\ ~Includes(name, <<".", ".">>)
  /\ name[1] # "-"

\* C10: isValidBranchName accepts a name exactly when it is not empty, has
\* only characters of [a-zA-Z0-9/_.-], contains no '..' and does not start
\* with '-'.
C10_AcceptsIff ==
  vChecked => (vAccepted <=> ClaimedValid(vName))

\* A name with a shell metacharacter was checked and rejected.
C10_Witness ==
  /\ vChecked
  /\ vName = <<"a", ";", "7">>
  /\ ~vAccepted

GivenLines == unitIn.lines
HashLike(x) ==
  /\ Len(x) \in 7..40
  /\ \A k \in DOMAIN x : x[k] \in DigitSet \cup {"a","b","c","d","e","f","A","B","C","D","E","F"}

\* C12 as stated: when the oldest record is 'branch: Created from X', the
\* strategy returns X without its remote prefix, X itself when it has none,
\* and for X = HEAD goes on to the next line, returning nothing when there is
\* none.
C12_CreatedFrom ==
  (pc = "ReflogDone" /\ unitIn.exec = "ok" /\ GivenLines # <<>>) =>
    LET oldest == GivenLines[Len(GivenLines)]
        rest == SubSeq(GivenLines, 1, Len(GivenLines) - 1)
    IN \A X \in ReflogSources \ {hash7, hashRef} :
         oldest = CreatedText(X) =>
           IF X = HEADText
             THEN /\ rest = <<>> => unitOut = Null
                  /\ rest = <<CreatedText(main)>> => unitOut = main
           ELSE IF StartsWith(X, Append(origin, "/"))
             THEN unitOut = Slice(X, Len(origin) + 1)
           ELSE unitOut = X

\* The branch was created from HEAD and later re-created from origin/develop:
\* the first record is skipped and develop is returned.
C12_Witness ==
  /\ pc = "ReflogDone"
  /\ unitIn.exec = "ok"
  /\ GivenLines = <<CreatedText(RemoteRef(origin, develop)), CreatedText(HEADText)>>
  /\ unitOut = develop

\* C13 as stated: whatever the reflog holds, the strategy does not return a
\* text of 7 to 40 hexadecimal characters.
C13_NeverHash ==
  pc = "ReflogDone" => ~HashLike(unitOut)

\* A hash in the 'Created from' position and one in the 'moving from'
\* position are both passed over.
C13_Witness ==
  /\ pc = "ReflogDone"
  /\ unitIn.exec = "ok"
  /\ GivenLines = <<MovingText(hash7, feat), CreatedText(hash7)>>
  /\ unitOut = Null

\* The records the strategy accepts: a creation from anything but HEAD or a
\* hash, or a checkout to the current branch from anything but a hash.
ValidRecord(line) ==
  \/ \E X \in ReflogSources :
       line = CreatedText(X) /\ X # HEADText /\ ~HashLike(X)
  \/ \E X \in {dev, hash7, main, HEADText} :
       line = MovingText(X, unitIn.cur) /\ ~HashLike(X)
SourceOf(line) ==
  CHOOSE X \in ReflogSources \cup {dev, hash7, main, HEADText} :
    line = CreatedText(X) \/ \E Y \in {dev, feat} : line = MovingText(X, Y)

C15_TrackingResult ==
  pc = "TrackingDone" =>
    LET ref == unitIn.value
        name == IF StartsWith(ref, RefsHeads) THEN SubSeq(ref, Len(RefsHeads) + 1, Len(ref))
                ELSE ref
        present == unitIn.exec = "ok"
        configured == IF unitIn.rc[1] = "ok" THEN unitIn.rc[2]
                      ELSE IF unitIn.rc[1] = "empty" THEN <<>>
                      ELSE unitIn.remote
    IN IF present /\ name # unitIn.cur
         THEN unitOut = BranchInfo(configured, name)
         ELSE unitOut = NoInfo

\* refs/heads/main configured for feat, and no remote configured: main with
\* the default remote.
C15_Witness ==
  /\ pc = "TrackingDone"
  /\ unitIn.exec = "ok"
  /\ unitIn.value = RefsHeads \o main
  /\ unitIn.cur = feat
  /\ unitIn.rc[1] = "exit"
  /\ unitOut = BranchInfo(origin, main)

\* The branches the fallback was given, and those a keyword's pattern
\* matches; the patterns in the order the fallback is said to test them.
GivenBranches == (Range(unitIn.locals) \cup Range(unitIn.remotes)) \ {unitIn.cur}
PatternOrder == <<release, main, master, develop, dev>>
IsKeyword(b, k) == ToLowerCase(b) = PatternOrder[k]
MatchesOf(k) ==
  { b \in GivenBranches :
      \/ IsKeyword(b, k)
      \/ /\ k = 1
         /\ \E sep \in {"/", "-"} : StartsWith(ToLowerCase(b), Append(release, sep)) }
Selects(k) ==
  \/ Cardinality(MatchesOf(k)) = 1
  \/ \E b \in MatchesOf(k) : IsKeyword(b, k)

C17_ExactlyOneExact ==
  pc = "KeywordDone" =>
    \A k \in DOMAIN PatternOrder :
      (/\ Cardinality(MatchesOf(k)) > 1
       /\ Cardinality({ b \in MatchesOf(k) : IsKeyword(b, k) }) # 1) =>
        unitOut.baseBranch \notin MatchesOf(k)

\* release-a and release-b are discarded together, and main is returned.
C17_Witness ==
  /\ pc = "KeywordDone"
  /\ GivenBranches = {releaseA, releaseB, main}
  /\ unitOut.baseBranch = main

Succeeded(child) == child.kind = "exit" /\ child.code = 0

\* C19: runGitCommand returns, for every way the child process ends, a
\* result with an integer exit code: 0 only when the command completed
\* successfully; -1 with a text naming the command and the timeout when the
\* timeout expired; otherwise the exit code the process reported, 1 when it
\* reported none, with a non-empty text that is stdout+stderr or, when those
\* are empty, the error's message.
C19_ExecResult ==
  pc = "ExecDone" =>
    LET child == unitIn.child
        text == child.stdout \o child.stderr
    IN /\ DOMAIN unitOut.exitCode = {"number"}
       /\ unitOut.exitCode = [number |-> 0] => Succeeded(child)
       /\ child.kind = "timeout" =>
            /\ unitOut.exitCode = [number |-> -1]
            /\ \E k \in DOMAIN unitOut.output : unitOut.output[k] = unitIn.args
            /\ \E k \in DOMAIN unitOut.output :
                 unitOut.output[k] = ToString(unitIn.timeoutMs)
       /\ (~Succeeded(child) /\ child.kind # "timeout") =>
            /\ unitOut.exitCode = [number |-> IF child.kind = "exit" THEN child.code ELSE 1]
            /\ unitOut.output # <<>>
            /\ text # <<>> => unitOut.output = text
            /\ (text = <<>> /\ child.message # <<>>) => unitOut.output = child.message

\* A command killed at the timeout was answered with -1 and the text.
C19_Witness ==
  /\ pc = "ExecDone"
  /\ unitIn.child.kind = "timeout"
  /\ unitOut = [exitCode |-> [number |-> -1],
                output |-> TimedOutText(unitIn.timeoutMs, unitIn.args)]

\* C20: during one findBaseBranch call at most one git subprocess is
\* outstanding at any time: a query is issued only when the subprocess of
\* every earlier query has completed, in every strategy and in the candidate
\* loops of the History strategy.
C20_OneOutstanding ==
  pc \in {"Query", "Await", "Returned"} =>
    /\ unitOut <= 1
    /\ pc = "Query" => unitOut = 0

\* The second ancestry query for a second local candidate is outstanding,
\* after the queries of the first candidate and of its remote.
C20_Witness ==
  /\ pc = "Await"
  /\ unitIn.at = "407"
  /\ unitIn.i = 2
  /\ unitIn.nK = 2
  /\ unitOut = 1

ReadOnlyCommands ==
  {"branch --list", "branch -r --list", "rev-parse", "merge-base", "rev-list --count",
   "reflog show", "config --get", "remote", "show-ref --verify --quiet"}

\* C22: findBaseBranch only reads the repository: every git command it
\* issues, in every strategy and on every path, is a branch listing,
\* rev-parse, merge-base, rev-list --count, reflog show, config --get, remote
\* or show-ref, none of which writes refs, config, index or working tree.
C22_ReadOnly ==
  pc \in {"Query", "Await"} =>
    CommandAt(IF unitIn.sub = "none" THEN unitIn.at ELSE unitIn.sub) \in ReadOnlyCommands

\* The call is waiting for show-ref about the second remote, for a branch
\* selected by the keyword fallback.
C22_Witness ==
  /\ pc = "Await"
  /\ unitIn.at = "566"
  /\ unitIn.sub = "335"
  /\ unitIn.k = 2
  /\ CommandAt(unitIn.sub) = "show-ref --verify --quiet"

\* The tool detected the feature branch itself and did not get a name.
DetectionFailed ==
  /\ pc = "ToolDone"
  /\ Compares
  /\ Falsy(argFeature)
  /\ featureBranch # repoLocal[1]

\* getCurrentBranch returns none when git prints HEAD and when the query
\* does not succeed.
NoneWhenDetached ==
  /\ \A exec \in ExecOutcome : getCurrentBranch(exec, HEADText) = Null
  /\ \A exec \in ExecOutcome \ {"ok"}, printed \in HeadPrints :
       getCurrentBranch(exec, printed) = Null

\* C23: in detached-HEAD state, or when the current-branch query fails,
\* getCurrentBranch returns none, every tool that detects the feature branch
\* itself then ends in an error, and findBaseBranch is never run with HEAD as
\* the current branch.
C23_DetachedSurfaced ==
  /\ NoneWhenDetached
  /\ currentBranch # HEADText
  /\ DetectionFailed => toolOut = "error: current branch not detected"

\* C23 as the code has it: get_pr_diff ends in the error; diff_stats, which
\* detects the feature branch only when the caller named a base branch, goes
\* on with the literal HEAD as feature branch, runs no base-branch
\* resolution and reports success.
C23_DetachedByTool ==
  /\ NoneWhenDetached
  /\ currentBranch # HEADText
  /\ (DetectionFailed /\ tool = "getPrDiff") =>
       toolOut = "error: current branch not detected"
  /\ (DetectionFailed /\ tool = "diffStats") =>
       /\ featureBranch = HEADText
       /\ ~Falsy(argBase)
       /\ usedBase = argBase
       /\ started = <<>>
       /\ toolOut = "success"

\* diff_stats was called with a base branch on a detached HEAD and compared
\* the base branch with HEAD.
C23_Witness ==
  /\ DetectionFailed
  /\ tool = "diffStats"
  /\ featureBranch = HEADText
  /\ toolCmds = {"fetch", "diff", "rev-list"}

\* The three acceptance conditions as facts of the commit graph: the ref
\* exists, so that it shares at least the root commit with the current branch,
\* the commits they share are not all of the current branch, and the current
\* branch has a commit the ref lacks.
Qualifies(ref) ==
  /\ ref \in DOMAIN reach
  /\ MergeBaseOf(currentBranch, ref) # HeadOf(currentBranch)
  /\ Ahead(currentBranch, ref)

\* C24: a loop iteration of the History strategy changes the candidate
\* count, the kept candidate or the ambiguity flag only for a ref that meets
\* all three acceptance conditions, and the branch the strategy returns is
\* kept under a ref that meets them.
C24_OnlyAccepted ==
  [][ /\ (pc \in {"HistLocal", "HistRemote"} /\ Loop' # Loop) => Qualifies(obs'.ref)
      /\ (pc' = "HistReturn" /\ HistoryResult(Loop', remote') # NoInfo) =>
           /\ Qualifies(uniqueRef')
           /\ BranchOf(uniqueRef') = HistoryResult(Loop', remote').baseBranch ]_vars

\* The strategy returns a branch it kept after its last iteration passed
\* over a ref that the current branch is not ahead of.
C24_Witness ==
  /\ pc = "HistReturn"
  /\ HistoryResult(Loop, remote) # NoInfo
  /\ Qualifies(uniqueRef)
  /\ obs.ref \in DOMAIN reach
  /\ obs.ref # uniqueRef
  /\ ~obs.accepted
  /\ ~Ahead(currentBranch, obs.ref)

\* C25: the Reflog strategy never returns HEAD, neither from a 'Created from'
\* record, whose source may carry a prefix as in origin/HEAD, nor from a
\* 'moving from HEAD to <current>' record.
C25_NeverHead ==
  pc = "ReflogDone" => ToUpperCase(unitOut) # HEADText

\* The only record is a creation from the bare HEAD: it is passed over and
\* nothing is returned.
C25_Witness ==
  /\ pc = "ReflogDone"
  /\ unitIn.exec = "ok"
  /\ GivenLines = <<CreatedText(HEADText)>>
  /\ unitOut = Null

\* A loop step compares the one candidate kept so far with a second accepted
\* one, neither or each is ahead of the other, and exactly one of the two
\* names is a keyword.
UnorderedPair ==
  /\ pc \in {"HistLocal", "HistRemote"}
  /\ candidateCount = 1
  /\ ~hasAmbiguity
  /\ obs'.compared
  /\ obs'.newer = obs'.prev
  /\ ExactKeyword(uniqueBase) # ExactKeyword(obs'.branch)

\* C26: when the History strategy has exactly two accepted candidates that
\* it cannot order by ancestry, one named by a keyword and the other not, the
\* strategy returns the keyword-named one.
C26_KeywordWithinHistory ==
  [][ (UnorderedPair /\ pc' = "HistReturn") =>
        /\ HistoryResult(Loop', remote') # NoInfo
        /\ ExactKeyword(HistoryResult(Loop', remote').baseBranch) ]_vars

\* C26 as the code has it: for such a pair the strategy raises the
\* ambiguity flag, counts two candidates, leaves the kept candidate as it is
\* whichever of the two has the keyword name, and returns no result.
C26_UnorderedGivesUp ==
  [][ UnorderedPair =>
        /\ hasAmbiguity'
        /\ candidateCount' = 2
        /\ uniqueBase' = uniqueBase
        /\ HistoryResult(Loop', remote') = NoInfo ]_vars

\* main was accepted second, level with the candidate kept before it, and
\* the strategy is about to return no result.
C26_Witness ==
  /\ pc = "HistReturn"
  /\ hasAmbiguity
  /\ candidateCount = 2
  /\ obs.compared
  /\ ~obs.newer
  /\ ~obs.prev
  /\ obs.branch = main
  /\ ~ExactKeyword(uniqueBase)
  /\ HistoryResult(Loop, remote) = NoInfo

\* C27: the base branch findBaseBranch returns is never the current branch
\* it was called with, whichever strategy produced it.
C27_NeverCurrent ==
  (pc = "Done" /\ result # NoInfo) => result.baseBranch # currentBranch

\* The remote holds a copy of the current branch, the History strategy
\* examined it, and the call returned another branch.
C27_Witness ==
  /\ pc = "Done"
  /\ via = "History"
  /\ RemoteRef(remote, currentBranch) \in DOMAIN reach
  /\ result.baseBranch # currentBranch

\* C28: for a fixed repository, the History strategy returns the same
\* outcome for every order in which the local and the remote branches are
\* listed.
C28_OrderIndependent ==
  pc = "HistoryDone" => Cardinality(unitOut.orders) = 1

\* Of three local branches two qualify, one ahead of the other, and every
\* order of the list yields the same branch.
C28_Witness ==
  /\ pc = "HistoryDone"
  /\ shell = "cmd"
  /\ Len(repoLocal) = 4
  /\ Cardinality({ k \in 2..4 : Ahead(unitIn.cur, repoLocal[k]) }) = 2
  /\ Cardinality(unitOut.orders) = 1
  /\ unitOut.orders # {NoInfo}

\* C29: failing queries never make the History strategy more confident: if
\* it returns no result when every query completes, it returns none when
\* some of them fail, and a branch returned under failures is the branch
\* returned without them.
C29_NoMoreConfident ==
  pc = "HistoryDone" =>
    /\ unitOut.plain = NoInfo => unitOut.failed = NoInfo
    /\ unitOut.failed # NoInfo => unitOut.failed.baseBranch = unitOut.plain.baseBranch

\* The query of the current tip fails and the strategy returns nothing where
\* it returns a branch when the query completes.
C29_Witness ==
  /\ pc = "HistoryDone"
  /\ unitIn.failing = {<< <<>>, "head">>}
  /\ unitOut.plain # NoInfo
  /\ unitOut.failed = NoInfo

\* A step of a candidate loop goes to the next position of its list, from
\* the end of the local list to the start of the remote one, or out of the
\* loops.
LoopAdvances ==
  \/ pc' = pc /\ idx' = idx + 1
  \/ pc = "HistLocal" /\ pc' = "HistRemote" /\ idx' = 1
  \/ pc' \in {"HistReturn", "Raised"}

\* C30: every call of findBaseBranch ends, with a branch or with none; no
\* strategy is entered twice; the candidate loops go through their lists
\* once, front to back, the local list before the remote one, and the lists
\* name no branch twice.
C30_Terminates ==
  /\ <>(pc = "Done")
  /\ [](\A i, j \in DOMAIN started : started[i] = started[j] => i = j)
  /\ [](/\ \A i, j \in DOMAIN localBranches : localBranches[i] = localBranches[j] => i = j
        /\ \A i, j \in DOMAIN remoteBranches :
             remoteBranches[i] = remoteBranches[j] => i = j)
  /\ [][(pc \in {"HistLocal", "HistRemote"}) => LoopAdvances]_vars

\* All four strategies ran, each once, and the call ended without a branch.
C30_Witness ==
  /\ pc = "Done"
  /\ result = NoInfo
  /\ started = <<"History", "Reflog", "Tracking", "Keyword">>
  /\ RemoteRef(remote, dev) \in DOMAIN reach
  /\ Len(repoLocal) = 2

====
